---- MODULE Spec2Model ----
(***************************************************************************)
(* Zernike optics simulation (ZernikeOptics.py): the index translator,     *)
(* the Zernike value object and the ZernikeWavefront composer.             *)
(*                                                                         *)
(* Python values are tagged records [type, val]; a str is the sequence of  *)
(* its characters; an object is the function from its attribute names to   *)
(* their values; a dict is the sequence of its <<key, value>> items in     *)
(* insertion order.  A call returns Ok(value) or Raise(exception).         *)
(***************************************************************************)
EXTENDS Integers, Sequences, FiniteSets, TLC

VARIABLES
    zs,      \* zs[s]: the Zernike object bound to name s, or NoObj
    zargs,   \* zargs[s]: the arguments of the Zernike(...) call made for s
    err,     \* the exception the last operation raised, "none" if it returned
    w,       \* the ZernikeWavefront object, or NoObj
    wargs,   \* the arguments of the ZernikeWavefront(...) call
    rargs,   \* the arguments of the random_wavefront(...) call
    draws,   \* the samples np.random.uniform has returned, in call order
    rho_cache,   \* the lru_cache of rho_theta
    mask_cache,  \* the lru_cache of outside_mask
    ran,     \* the bodies of cached functions the last operation has run
    ccall,   \* the last direct call of a cached function
    call,    \* the evaluation made: the function and its arguments
    out,     \* what the evaluation returned or raised
    psf,     \* the PsfGenerator3D object, or NoObj
    filters, \* the warning filters of the process, the newest first
    pcall,   \* the last call made on the generator
    pout,    \* what that call returned
    warned,  \* whether the last check_object warning was shown or ignored
    fp       \* how the float radii of the generator compare with k_cut on the pupil rim

objectVars == <<zs, zargs, err, w, wargs>>

randomVars == <<rargs, draws>>

gridVars == <<rho_cache, mask_cache, ran, ccall, call, out>>

psfVars == <<psf, filters, pcall, pout, warned, fp>>

\* the state the Zernike and ZernikeWavefront objects do not touch
otherVars == <<randomVars, gridVars, psfVars>>

vars == <<zs, zargs, err, w, wargs, otherVars>>

----------------------------------------------------------------------------
(* Bounds *)

\* The source enumerates n in range(200); the model enumerates n in 0..RangeN-1.
RangeN == 6

\* Longest flat amplitude sequence handed to ZernikeWavefront.
MaxLen == 3

\* Most items of a mapping handed to ZernikeWavefront.
MaxItems == 2

----------------------------------------------------------------------------
(* Python values *)

PyInt(i) == [type |-> "int", val |-> i]
PyStr(s) == [type |-> "str", val |-> s]
PyTuple(t) == [type |-> "tuple", val |-> t]
PyDict(d) == [type |-> "dict", val |-> d]
None == [type |-> "NoneType", val |-> 0]

Ok(v) == [raised |-> "none", value |-> v]
Raise(e) == [raised |-> e, value |-> None]

NoObj == [none |-> TRUE]
NoArgs == [none |-> TRUE]

abs(x) == IF x < 0 THEN -x ELSE x

UpperAlpha ==
    <<"A","B","C","D","E","F","G","H","I","J","K","L","M",
      "N","O","P","Q","R","S","T","U","V","W","X","Y","Z">>
LowerAlpha ==
    <<"a","b","c","d","e","f","g","h","i","j","k","l","m",
      "n","o","p","q","r","s","t","u","v","w","x","y","z">>
DigitChars == <<"0","1","2","3","4","5","6","7","8","9">>

\* str.lower(), one character
lower_char(c) ==
    IF \E i \in DOMAIN UpperAlpha : UpperAlpha[i] = c
    THEN LowerAlpha[CHOOSE i \in DOMAIN UpperAlpha : UpperAlpha[i] = c]
    ELSE c

\* str.lower()
lower(s) == [i \in 1..Len(s) |-> lower_char(s[i])]

\* str.upper(), used to build inputs only
upper_char(c) ==
    IF \E i \in DOMAIN LowerAlpha : LowerAlpha[i] = c
    THEN UpperAlpha[CHOOSE i \in DOMAIN LowerAlpha : LowerAlpha[i] = c]
    ELSE c
upper(s) == [i \in 1..Len(s) |-> upper_char(s[i])]

\* str.isdigit()
isdigit(s) ==
    /\ Len(s) > 0
    /\ \A i \in 1..Len(s) : \E d \in DOMAIN DigitChars : DigitChars[d] = s[i]

digit_value(c) == (CHOOSE d \in DOMAIN DigitChars : DigitChars[d] = c) - 1

\* int(s) of a string of digits
RECURSIVE int_of(_)
int_of(s) ==
    IF Len(s) = 0 THEN 0
    ELSE 10 * int_of(SubSeq(s, 1, Len(s) - 1)) + digit_value(s[Len(s)])

----------------------------------------------------------------------------
(* Index translator *)

\* nm_to_noll with the first guard written m >= 0
nm_to_noll_ge(n, m) ==
    LET j == (n * (n + 1)) \div 2 + abs(m)
    IN  IF m >= 0 /\ n % 4 \in {0, 1} THEN Ok(j)
        ELSE IF m < 0 /\ n % 4 \in {2, 3} THEN Ok(j)
        ELSE IF m >= 0 /\ n % 4 \in {2, 3} THEN Ok(j + 1)
        ELSE IF m <= 0 /\ n % 4 \in {0, 1} THEN Ok(j + 1)
        ELSE Raise("AssertionError")

\* nm_to_noll with the last guard written m < 0
nm_to_noll_lt(n, m) ==
    LET j == (n * (n + 1)) \div 2 + abs(m)
    IN  IF m > 0 /\ n % 4 \in {0, 1} THEN Ok(j)
        ELSE IF m < 0 /\ n % 4 \in {2, 3} THEN Ok(j)
        ELSE IF m >= 0 /\ n % 4 \in {2, 3} THEN Ok(j + 1)
        ELSE IF m < 0 /\ n % 4 \in {0, 1} THEN Ok(j + 1)
        ELSE Raise("AssertionError")

nm_to_noll(n, m) ==
    LET j == (n * (n + 1)) \div 2 + abs(m)
    IN  IF m > 0 /\ n % 4 \in {0, 1} THEN Ok(j)
        ELSE IF m < 0 /\ n % 4 \in {2, 3} THEN Ok(j)
        ELSE IF m >= 0 /\ n % 4 \in {2, 3} THEN Ok(j + 1)
        ELSE IF m <= 0 /\ n % 4 \in {0, 1} THEN Ok(j + 1)
        ELSE Raise("AssertionError")

nm_to_ansi(n, m) == (n * (n + 2) + m) \div 2

_ansi_names ==
    << <<"p","i","s","t","o","n">>,
       <<"t","i","l","t">>,
       <<"t","i","p">>,
       <<"o","b","l","i","q","u","e"," ","a","s","t","i","g","m","a","t","i","s","m">>,
       <<"d","e","f","o","c","u","s">>,
       <<"v","e","r","t","i","c","a","l"," ","a","s","t","i","g","m","a","t","i","s","m">>,
       <<"v","e","r","t","i","c","a","l"," ","t","r","e","f","o","i","l">>,
       <<"v","e","r","t","i","c","a","l"," ","c","o","m","a">>,
       <<"h","o","r","i","z","o","n","t","a","l"," ","c","o","m","a">>,
       <<"o","b","l","i","q","u","e"," ","t","r","e","f","o","i","l">>,
       <<"o","b","l","i","q","u","e"," ","q","u","a","d","r","a","f","o","i","l">>,
       <<"o","b","l","i","q","u","e"," ","s","e","c","o","n","d","a","r","y"," ","a","s","t","i","g","m","a","t","i","s","m">>,
       <<"p","r","i","m","a","r","y"," ","s","p","h","e","r","i","c","a","l">>,
       <<"v","e","r","t","i","c","a","l"," ","s","e","c","o","n","d","a","r","y"," ","a","s","t","i","g","m","a","t","i","s","m">>,
       <<"v","e","r","t","i","c","a","l"," ","q","u","a","d","r","a","f","o","i","l">> >>

\* the enumeration with m in range(-n, n + 1): the step of 2 left out
_nm_pairs_step_one ==
    {nm \in (0..(RangeN - 1)) \X ((1 - RangeN)..(RangeN - 1)) :
        /\ -nm[1] <= nm[2]
        /\ nm[2] <= nm[1]}

\* set((n, m) for n in range(RangeN) for m in range(-n, n + 1, 2))
_nm_pairs ==
    {nm \in (0..(RangeN - 1)) \X ((1 - RangeN)..(RangeN - 1)) :
        /\ -nm[1] <= nm[2]
        /\ nm[2] <= nm[1]
        /\ (nm[2] + nm[1]) % 2 = 0}

\* dict(zip((nm_to_noll(*nm) for nm in _nm_pairs), _nm_pairs)): the keys are the
\* indices of the pairs, and a key holds a pair that produced it (the pair the
\* set iterates last, were there several).
_noll_to_nm ==
    [j \in {nm_to_noll(nm[1], nm[2]).value : nm \in _nm_pairs} |->
        CHOOSE nm \in _nm_pairs : nm_to_noll(nm[1], nm[2]).value = j]

_ansi_to_nm ==
    [j \in {nm_to_ansi(nm[1], nm[2]) : nm \in _nm_pairs} |->
        CHOOSE nm \in _nm_pairs : nm_to_ansi(nm[1], nm[2]) = j]

----------------------------------------------------------------------------
(* class Zernike *)

s_noll == <<"n","o","l","l">>
s_ansi == <<"a","n","s","i">>

\* str(order), for the orders the model passes: a str or None
py_str(v) == IF v.type = "str" THEN v.val ELSE <<"N","o","n","e">>

\* list.index(name) taken 1-based
names_index_one_based(name) == CHOOSE i \in DOMAIN _ansi_names : _ansi_names[i] = name

\* list.index(name), 0-based
names_index(name) == (CHOOSE i \in DOMAIN _ansi_names : _ansi_names[i] = name) - 1

\* object.__setattr__
object__setattr__(self, attr, val) ==
    [a \in DOMAIN self \cup {attr} |-> IF a = attr THEN val ELSE self[a]]

\* Zernike.__setattr__ without the _mutable test
Zernike__setattr__unguarded(self, attr, val) == Ok(object__setattr__(self, attr, val))

Zernike__setattr__(self, attr, val) ==
    IF self["_mutable"]
    THEN Ok(object__setattr__(self, attr, val))
    ELSE Raise("AttributeError")

\* an attribute assignment inside a method: skipped once an exception is up
assign(res, attr, val) ==
    IF res.raised # "none" THEN res ELSE Zernike__setattr__(res.value, attr, val)

\* lines 173-176: the derived indices, the name, and the freeze
Zernike__init__derive(res) ==
    IF res.raised # "none" THEN res
    ELSE LET self == res.value
             noll == nm_to_noll(self["n"], self["m"])
             ansi == nm_to_ansi(self["n"], self["m"])
             name == IF ansi < Len(_ansi_names)
                     THEN PyStr(_ansi_names[ansi + 1])
                     ELSE None
         IN  IF noll.raised # "none" THEN Raise(noll.raised)
             ELSE assign(assign(assign(assign(res,
                     "index_noll", noll.value),
                     "index_ansi", ansi),
                     "name", name),
                     "_mutable", FALSE)

\* lines 152-171: the dispatch on the type of index
Zernike__init__dispatch(self0, index, order) ==
    IF index.type = "tuple" /\ Len(index.val) = 2
    THEN LET res == assign(assign(Ok(self0), "n", index.val[1]), "m", index.val[2])
         IN  IF res.raised # "none" THEN res
             ELSE IF <<index.val[1], index.val[2]>> \in _nm_pairs THEN res
             ELSE Raise("ValueError")
    ELSE IF index.type = "int"
    THEN LET ord == lower(py_str(order))
         IN  IF ord \notin {s_noll, s_ansi} THEN Raise("ValueError")
             ELSE IF ord = s_noll
             THEN IF index.val \notin DOMAIN _noll_to_nm THEN Raise("ValueError")
                  ELSE assign(assign(Ok(self0),
                          "n", _noll_to_nm[index.val][1]),
                          "m", _noll_to_nm[index.val][2])
             ELSE IF index.val \notin DOMAIN _ansi_to_nm THEN Raise("ValueError")
                  ELSE assign(assign(Ok(self0),
                          "n", _ansi_to_nm[index.val][1]),
                          "m", _ansi_to_nm[index.val][2])
    ELSE Raise("ValueError")

\* Zernike(index, order): Ok(the object) or Raise(the exception)
Zernike__init__(index, order) ==
    LET self0 == [a \in {"__class__", "_mutable"} |->
                     IF a = "__class__" THEN "Zernike" ELSE TRUE]
    IN  IF index.type = "str"
        THEN IF isdigit(index.val)
             THEN Zernike__init__derive(
                      Zernike__init__dispatch(self0, PyInt(int_of(index.val)), order))
             ELSE LET name == lower(index.val)
                  IN  IF \E i \in DOMAIN _ansi_names : _ansi_names[i] = name
                      THEN Zernike__init__derive(
                               Zernike__init__dispatch(
                                   self0, PyInt(names_index(name)), PyStr(s_ansi)))
                      ELSE Raise("ValueError")
        ELSE Zernike__init__derive(Zernike__init__dispatch(self0, index, order))

\* hash of a tuple of two ints; stands for CPython's tuple hash, a function of
\* the items alone
py_hash_pair(t) == (t[1] * 1000003 + t[2]) % 2147483647

Zernike__hash__(self) == py_hash_pair(<<self["n"], self["m"]>>)

isinstance_Zernike(o) == "__class__" \in DOMAIN o /\ o["__class__"] = "Zernike"

\* Zernike.__eq__ comparing the radial order alone
Zernike__eq__n_only(self, other) ==
    isinstance_Zernike(other) /\ self["n"] = other["n"]

Zernike__eq__(self, other) ==
    isinstance_Zernike(other) /\ <<self["n"], self["m"]>> = <<other["n"], other["m"]>>

Zernike__lt__(self, other) == self["index_ansi"] < other["index_ansi"]

----------------------------------------------------------------------------
(* Zernike objects: construction and attribute assignment *)

Slots == {"a", "b"}

\* number of pairs in _nm_pairs (20100 for range(200))
NumModes == (RangeN * (RangeN + 1)) \div 2

s_zemax == <<"z","e","m","a","x">>

capitalize(s) == [i \in 1..Len(s) |-> IF i = 1 THEN upper_char(s[i]) ELSE s[i]]

Call(index, order) == [index |-> index, order |-> order]

\* Zernike(name): every canonical name as written, in capitals and capitalized,
\* under differing order arguments; unknown names; strings of digits
StrInputs ==
    {Call(PyStr(_ansi_names[i]), PyStr(s_noll)) : i \in DOMAIN _ansi_names}
    \cup {Call(PyStr(upper(_ansi_names[i])), PyStr(s_zemax)) : i \in DOMAIN _ansi_names}
    \cup {Call(PyStr(capitalize(_ansi_names[i])), None) : i \in DOMAIN _ansi_names}
    \cup {Call(PyStr(<<"c","o","m","a">>), PyStr(s_ansi)),
          Call(PyStr(<<>>), PyStr(s_noll)),
          Call(PyStr(<<"4">>), PyStr(s_noll)),
          Call(PyStr(<<"1","2">>), PyStr(s_ansi)),
          Call(PyStr(<<"0">>), PyStr(s_noll)),
          Call(PyStr(<<"-","1">>), PyStr(s_ansi))}

\* Zernike(j, order): every index from below the range to above it
IntInputs ==
    {Call(PyInt(j), PyStr(o)) : j \in (-1)..(NumModes + 1), o \in {s_noll, s_ansi}}
    \cup {Call(PyInt(j), o) :
            j \in {0, 1, NumModes},
            o \in {PyStr(upper(s_noll)), PyStr(capitalize(s_ansi)), PyStr(s_zemax), None}}

\* Zernike((n, m)): every pair of a box around the valid ones
PairInputs ==
    {Call(PyTuple(nm), PyStr(s_noll)) :
        nm \in {p \in ((-1)..RangeN) \X ((-(RangeN + 1))..(RangeN + 1)) :
                    abs(p[2]) <= p[1] + 1}}
    \cup {Call(PyTuple(<<2, 0>>), PyStr(s_zemax)),
          Call(PyTuple(<<2, 1>>), PyStr(s_ansi)),
          Call(PyTuple(<<1, 1, 1>>), PyStr(s_noll)),
          Call(PyTuple(<<4>>), PyStr(s_noll)),
          Call(None, PyStr(s_noll))}

ZernikeInputs == StrInputs \cup IntInputs \cup PairInputs

\* the values an assignment to an attribute is tried with
AttrValues(attr) ==
    IF attr = "name" THEN {None, PyStr(<<"t","i","p">>)}
    ELSE IF attr = "_mutable" THEN {TRUE}
    ELSE {7}

Attrs == {"n", "m", "index_noll", "index_ansi", "name", "_mutable", "extra"}

Init ==
    /\ zs = [s \in Slots |-> NoObj]
    /\ zargs = [s \in Slots |-> NoArgs]
    /\ err = "none"
    /\ w = NoObj
    /\ wargs = NoArgs
    /\ rargs = NoArgs
    /\ draws = <<>>
    /\ rho_cache = <<>>
    /\ mask_cache = <<>>
    /\ ran = <<>>
    /\ ccall = NoArgs
    /\ call = NoArgs
    /\ out = NoObj
    /\ psf = NoObj
    /\ filters = <<>>
    /\ pcall = NoArgs
    /\ pout = NoObj
    /\ warned = "none"
    /\ fp = [sqrt |-> FALSE, hypot |-> FALSE]

\* s = Zernike(index, order), once for each name s
Construct(s) ==
    /\ zargs[s] = NoArgs
    /\ \E inp \in ZernikeInputs :
         LET r == Zernike__init__(inp.index, inp.order)
         IN  /\ zs' = IF r.raised = "none" THEN [zs EXCEPT ![s] = r.value] ELSE zs
             /\ err' = r.raised
             /\ zargs' = [zargs EXCEPT ![s] = inp]
    /\ UNCHANGED <<w, wargs, otherVars>>

\* s.attr = val on a constructed object
SetAttr(s) ==
    /\ zs[s] # NoObj
    /\ \E attr \in Attrs :
         \E val \in AttrValues(attr) :
           LET r == Zernike__setattr__(zs[s], attr, val)
           IN  /\ zs' = IF r.raised = "none" THEN [zs EXCEPT ![s] = r.value] ELSE zs
               /\ err' = r.raised
    /\ UNCHANGED <<zargs, w, wargs, otherVars>>

Next ==
    \/ \E s \in Slots : Construct(s)
    \/ \E s \in Slots : SetAttr(s)

Spec == Init /\ [][Next]_vars

----------------------------------------------------------------------------
(* ensure_dict, dict_to_list and class ZernikeWavefront *)

PyList(t) == [type |-> "list", val |-> t]

\* np.isscalar, for the values the model passes: ints, tuples and lists
isscalar(a) == a.type = "int"

\* dict(zip(range(offset, offset + len(values)), values))
zip_range(offset, values) ==
    [i \in 1..Len(values) |-> <<PyInt(offset + i - 1), values[i]>>]

\* ensure_dict with the offset of 'noll' used under either order
ensure_dict_offset_one(values, order) ==
    IF values.type = "dict" THEN Ok(values.val)
    ELSE IF values.type \in {"tuple", "list"}
    THEN LET ord == lower(py_str(order))
         IN  IF ord \notin {s_noll, s_ansi} THEN Raise("ValueError")
             ELSE Ok(zip_range(1, values.val))
    ELSE Raise("ValueError")

\* ensure_dict(values, order): Ok(the items of the dict) or Raise
ensure_dict(values, order) ==
    IF values.type = "dict" THEN Ok(values.val)
    ELSE IF values.type \in {"tuple", "list"}
    THEN LET ord == lower(py_str(order))
         IN  IF ord \notin {s_noll, s_ansi} THEN Raise("ValueError")
             ELSE Ok(zip_range(IF ord = s_noll THEN 1 ELSE 0, values.val))
    ELSE Raise("ValueError")

max_of(S) == CHOOSE x \in S : \A y \in S : y <= x

\* dict_to_list(kv) for a dict kv with int keys; max() of no keys raises
dict_to_list(kv) ==
    IF Len(kv) = 0 THEN Raise("ValueError")
    ELSE LET max_key == max_of({kv[i][1] : i \in 1..Len(kv)})
         IN  Ok([j \in 1..(max_key + 1) |->
                    IF \E i \in 1..Len(kv) : kv[i][1] = j - 1
                    THEN kv[CHOOSE i \in 1..Len(kv) : kv[i][1] = j - 1][2]
                    ELSE PyInt(0)])

\* two Zernike keys address the same dict entry
same_key(a, b) == Zernike__hash__(a) = Zernike__hash__(b) /\ Zernike__eq__(a, b)

dict_has(d, k) == \E i \in 1..Len(d) : same_key(d[i][1], k)

dict_pos(d, k) == CHOOSE i \in 1..Len(d) : same_key(d[i][1], k)

\* d[k]
dict_getitem(d, k) == d[dict_pos(d, k)][2]

\* d[k] = v: the entry of an equal key is overwritten in place, a new key is
\* appended
dict_setitem(d, k, v) ==
    IF dict_has(d, k)
    THEN [d EXCEPT ![dict_pos(d, k)] = <<d[dict_pos(d, k)][1], v>>]
    ELSE Append(d, <<k, v>>)

\* del d[k]
dict_delitem(d, k) ==
    LET p == dict_pos(d, k)
    IN  SubSeq(d, 1, p - 1) \o SubSeq(d, p + 1, Len(d))

\* {Zernike(j, order=order): a for j, a in amplitudes.items()}
RECURSIVE zernikes_of(_, _, _)
zernikes_of(items, order, acc) ==
    IF Len(items) = 0 THEN Ok(acc)
    ELSE LET z == Zernike__init__(items[1][1], order)
         IN  IF z.raised # "none" THEN Raise(z.raised)
             ELSE zernikes_of(Tail(items), order,
                              dict_setitem(acc, z.value, items[1][2]))

\* {z.index_noll: a for z, a in self.zernikes.items()}, and likewise index_ansi
by_index(zernikes, attr) ==
    [i \in 1..Len(zernikes) |-> <<zernikes[i][1][attr], zernikes[i][2]>>]

\* the Noll view without the [1:] slice
amplitudes_noll_unsliced(zernikes) == dict_to_list(by_index(zernikes, "index_noll"))

\* tuple(dict_to_list({z.index_noll: a ...})[1:])
amplitudes_noll_of(zernikes) ==
    LET l == dict_to_list(by_index(zernikes, "index_noll"))
    IN  IF l.raised # "none" THEN l ELSE Ok(Tail(l.value))

\* tuple(dict_to_list({z.index_ansi: a ...}))
amplitudes_ansi_of(zernikes) == dict_to_list(by_index(zernikes, "index_ansi"))

\* sorted() leaving the keys as they come
sorted_unsorted(keys) == keys

\* sorted(keys): a stable sort that compares with __lt__ alone
RECURSIVE sorted(_)
sorted(keys) ==
    IF Len(keys) = 0 THEN <<>>
    ELSE LET done == sorted(SubSeq(keys, 1, Len(keys) - 1))
             x == keys[Len(keys)]
             before == {i \in 1..Len(done) : Zernike__lt__(x, done[i])}
             p == IF before = {} THEN Len(done) + 1
                  ELSE CHOOSE i \in before : \A j \in before : i <= j
         IN  SubSeq(done, 1, p - 1) \o <<x>> \o SubSeq(done, p, Len(done))

\* tuple(self.zernikes[k] for k in sorted(self.zernikes.keys()))
amplitudes_requested_of(zernikes) ==
    LET keys == sorted([i \in 1..Len(zernikes) |-> zernikes[i][1]])
    IN  [i \in 1..Len(keys) |-> dict_getitem(zernikes, keys[i])]

\* ZernikeWavefront(amplitudes, order): Ok(the object) or Raise
ZernikeWavefront__init__(amplitudes, order) ==
    LET d == ensure_dict(amplitudes, order)
    IN  IF d.raised # "none" THEN d
        ELSE IF \E i \in 1..Len(d.value) : ~isscalar(d.value[i][2])
        THEN Raise("ValueError")
        ELSE LET zk == zernikes_of(d.value, order, <<>>)
             IN  IF zk.raised # "none" THEN zk
                 ELSE LET noll == amplitudes_noll_of(zk.value)
                          ansi == amplitudes_ansi_of(zk.value)
                      IN  IF noll.raised # "none" THEN noll
                          ELSE IF ansi.raised # "none" THEN ansi
                          ELSE Ok([zernikes |-> zk.value,
                                   amplitudes_noll |-> noll.value,
                                   amplitudes_ansi |-> ansi.value,
                                   amplitudes_requested |->
                                       amplitudes_requested_of(zk.value)])

\* ZernikeWavefront.__len__
ZernikeWavefront__len__(self) == Len(self.zernikes)

----------------------------------------------------------------------------
(* A ZernikeWavefront object: construction, then assignments to it *)

WCall(amplitudes, order) == [amplitudes |-> amplitudes, order |-> order]

Amps == {PyInt(0), PyInt(2)}

RECURSIVE SeqsUpTo(_, _)
SeqsUpTo(S, n) ==
    IF n = 0 THEN {<<>>}
    ELSE LET shorter == SeqsUpTo(S, n - 1)
         IN  shorter \cup {Append(q, x) : q \in shorter, x \in S}

\* flat sequences of scalars under each order, a sequence holding a non-scalar,
\* and a bare scalar
FlatInputs ==
    {WCall(PyList(q), o) :
        q \in SeqsUpTo(Amps, MaxLen),
        o \in {PyStr(s_noll), PyStr(upper(s_ansi))}}
    \cup {WCall(PyList(<<PyInt(0), PyInt(2)>>), PyStr(s_zemax)),
          WCall(PyList(<<PyInt(2), PyList(<<PyInt(2)>>)>>), PyStr(s_noll)),
          WCall(PyInt(2), PyStr(s_noll))}

\* the keys of the mappings: linear indices and descriptor pairs
MapKeys ==
    {PyInt(j) : j \in 0..2} \cup {PyTuple(<<1, 1>>), PyTuple(<<2, 1>>)}

DistinctKeys(q) == \A i \in 1..Len(q) : \A j \in 1..Len(q) : i # j => q[i][1] # q[j][1]

MapInputs ==
    {WCall(PyDict(q), o) :
        q \in {r \in SeqsUpTo(MapKeys \X Amps, MaxItems) : DistinctKeys(r)},
        o \in {PyStr(s_noll), PyStr(s_ansi)}}

WavefrontInputs == FlatInputs \cup MapInputs

\* the values an attribute of the wavefront is reassigned to
ViewValue == <<PyInt(9)>>

WAttrs == {"zernikes", "amplitudes_noll", "amplitudes_ansi", "amplitudes_requested"}

\* the modes an item assignment addresses
ItemKeys == {Zernike__init__(PyInt(j), PyStr(s_noll)).value : j \in {1, 2}}

\* w = ZernikeWavefront(amplitudes, order)
WConstruct ==
    /\ wargs = NoArgs
    /\ \E inp \in WavefrontInputs :
         LET r == ZernikeWavefront__init__(inp.amplitudes, inp.order)
         IN  /\ w' = IF r.raised = "none" THEN r.value ELSE w
             /\ err' = r.raised
             /\ wargs' = inp
    /\ UNCHANGED <<zs, zargs, otherVars>>

\* w.attr = value: the class defines no __setattr__, object.__setattr__ stores
WSetAttr ==
    /\ w # NoObj
    /\ \E attr \in WAttrs :
         w' = object__setattr__(w, attr, IF attr = "zernikes" THEN <<>> ELSE ViewValue)
    /\ err' = "none"
    /\ UNCHANGED <<zs, zargs, wargs, otherVars>>

\* w.zernikes[z] = a: the mapping is a plain dict
WSetItem ==
    /\ w # NoObj
    /\ \E z \in ItemKeys :
         w' = [w EXCEPT !.zernikes = dict_setitem(w.zernikes, z, PyInt(9))]
    /\ err' = "none"
    /\ UNCHANGED <<zs, zargs, wargs, otherVars>>

\* del w.zernikes[z]
WDelItem ==
    /\ w # NoObj
    /\ \E i \in 1..Len(w.zernikes) :
         w' = [w EXCEPT !.zernikes = dict_delitem(w.zernikes, w.zernikes[i][1])]
    /\ err' = "none"
    /\ UNCHANGED <<zs, zargs, wargs, otherVars>>

NextWavefront ==
    \/ WConstruct
    \/ WSetAttr
    \/ WSetItem
    \/ WDelItem

SpecWavefront == Init /\ [][NextWavefront]_vars

----------------------------------------------------------------------------
(* Properties of the index translator and of Zernike objects *)

Objects == {s \in Slots : zs[s] # NoObj}

nm_of(z) == <<z["n"], z["m"]>>

\* C1: for every valid descriptor (n, m), the Noll reverse table at
\* nm_to_noll(n, m) and the ANSI reverse table at nm_to_ansi(n, m) hold (n, m),
\* and no two distinct descriptors share a Noll index or share an ANSI index.
C1_RoundTrip ==
    /\ \A s \in Objects :
         /\ nm_to_noll(zs[s]["n"], zs[s]["m"]).raised = "none"
         /\ _noll_to_nm[nm_to_noll(zs[s]["n"], zs[s]["m"]).value] = nm_of(zs[s])
         /\ _ansi_to_nm[nm_to_ansi(zs[s]["n"], zs[s]["m"])] = nm_of(zs[s])
    /\ \A s \in Objects : \A t \in Objects :
         \/ nm_of(zs[s]) = nm_of(zs[t])
         \/ /\ nm_to_noll(zs[s]["n"], zs[s]["m"]) # nm_to_noll(zs[t]["n"], zs[t]["m"])
            /\ nm_to_ansi(zs[s]["n"], zs[s]["m"]) # nm_to_ansi(zs[t]["n"], zs[t]["m"])

\* two objects built from descriptor pairs that differ in the sign of m only
C1_Witness ==
    /\ Objects = Slots
    /\ zargs["a"].index.type = "tuple"
    /\ zargs["b"].index.type = "tuple"
    /\ zs["a"]["n"] = zs["b"]["n"]
    /\ zs["a"]["m"] = -zs["b"]["m"]
    /\ zs["a"]["m"] > 0
    /\ _noll_to_nm[zs["a"]["index_noll"]] = nm_of(zs["a"])
    /\ _noll_to_nm[zs["b"]["index_noll"]] = nm_of(zs["b"])

\* the spellings of a canonical name the calls use
CaseVariants(name) == {name, upper(name), capitalize(name)}

NameVariants == [i \in DOMAIN _ansi_names |-> CaseVariants(_ansi_names[i])]

\* C2: for the canonical name at position i of the ANSI name list, Zernike(name)
\* in any letter case and with any order argument, Zernike(i, 'ansi'),
\* Zernike(its Noll index, 'noll') and Zernike((n, m)) are equal objects named
\* by the canonical name; a mode of ANSI index >= 15 has name None.
C2_NamedModes ==
    /\ \A s \in Slots : \A i \in DOMAIN _ansi_names :
         (/\ zargs[s] # NoArgs
          /\ zargs[s].index.type = "str"
          /\ zargs[s].index.val \in NameVariants[i])
         => /\ zs[s] # NoObj
            /\ zs[s]["index_ansi"] = i - 1
            /\ zs[s]["name"] = PyStr(_ansi_names[i])
            /\ \A t \in Slots :
                 (/\ zargs[t] # NoArgs
                  /\ \/ zargs[t] = Call(PyInt(i - 1), PyStr(s_ansi))
                     \/ zargs[t] = Call(PyInt(zs[s]["index_noll"]), PyStr(s_noll))
                     \/ zargs[t].index = PyTuple(nm_of(zs[s])))
                 => /\ zs[t] # NoObj
                    /\ Zernike__eq__(zs[s], zs[t])
                    /\ Zernike__eq__(zs[t], zs[s])
                    /\ zs[t]["name"] = PyStr(_ansi_names[i])
    /\ \A s \in Objects :
         zs[s]["index_ansi"] >= Len(_ansi_names) => zs[s]["name"] = None

\* 'DEFOCUS' under a foreign order argument beside Noll index 4
C2_Witness ==
    /\ zargs["a"] = Call(PyStr(upper(_ansi_names[5])), PyStr(s_zemax))
    /\ zargs["b"] = Call(PyInt(4), PyStr(s_noll))
    /\ Objects = Slots
    /\ nm_of(zs["a"]) = <<2, 0>>
    /\ Zernike__eq__(zs["a"], zs["b"])

\* C3: Zernike(j, 'noll') succeeds iff 1 <= j <= NumModes, Zernike(j, 'ansi')
\* iff 0 <= j <= NumModes - 1, and Zernike((n, m)) iff 0 <= n < RangeN,
\* |m| <= n and n - m even; a failed call leaves no object.
C3_ConstructionDomain ==
    \A s \in Slots :
      zargs[s] # NoArgs =>
        LET index == zargs[s].index
            order == zargs[s].order
        IN  /\ (index.type = "int" /\ order = PyStr(s_noll))
                 => (zs[s] # NoObj <=> (1 <= index.val /\ index.val <= NumModes))
            /\ (index.type = "int" /\ order = PyStr(s_ansi))
                 => (zs[s] # NoObj <=> (0 <= index.val /\ index.val <= NumModes - 1))
            /\ (index.type = "tuple" /\ Len(index.val) = 2)
                 => (zs[s] # NoObj <=>
                        /\ 0 <= index.val[1]
                        /\ index.val[1] < RangeN
                        /\ abs(index.val[2]) <= index.val[1]
                        /\ (index.val[1] - index.val[2]) % 2 = 0)
            /\ zs[s] # NoObj =>
                 /\ (index.type = "int" /\ order = PyStr(s_noll))
                      => zs[s]["index_noll"] = index.val
                 /\ (index.type = "int" /\ order = PyStr(s_ansi))
                      => zs[s]["index_ansi"] = index.val
                 /\ (index.type = "tuple") => nm_of(zs[s]) = index.val

\* the last Noll index accepted, and the first one past the range refused
C3_Witness ==
    /\ zargs["a"] = Call(PyInt(NumModes), PyStr(s_noll))
    /\ zs["a"] # NoObj
    /\ zargs["b"] = Call(PyInt(NumModes + 1), PyStr(s_noll))
    /\ zs["b"] = NoObj
    /\ err = "ValueError"

\* C4: on a constructed Zernike object every assignment to n, m, index_noll,
\* index_ansi, name or _mutable, and every assignment of a new attribute, raises,
\* and no step changes an attribute of a constructed object.
C4_Immutable ==
    [][/\ \A s \in Slots : zs[s] # NoObj => zs'[s] = zs[s]
       /\ (\E s \in Slots : SetAttr(s)) => err' = "AttributeError"]_vars

\* both objects constructed, and the last assignment refused
C4_Witness ==
    /\ Objects = Slots
    /\ err = "AttributeError"
    /\ \A s \in Slots : ~zs[s]["_mutable"]

\* C6: a == b iff (a.n, a.m) == (b.n, b.m); equal objects have equal hashes;
\* and exactly one of a < b, a == b, b < a holds.
C6_EqHashOrder ==
    \A s \in Objects : \A t \in Objects :
      LET a == zs[s]
          b == zs[t]
          eq == Zernike__eq__(a, b)
          lt == Zernike__lt__(a, b)
          gt == Zernike__lt__(b, a)
      IN  /\ eq <=> (nm_of(a) = nm_of(b))
          /\ eq => Zernike__hash__(a) = Zernike__hash__(b)
          /\ lt \/ eq \/ gt
          /\ ~(lt /\ eq)
          /\ ~(eq /\ gt)
          /\ ~(lt /\ gt)

\* two different modes of one radial order, and so ordered by m
C6_Witness ==
    /\ Objects = Slots
    /\ zs["a"]["n"] = zs["b"]["n"]
    /\ zs["a"]["m"] < zs["b"]["m"]
    /\ Zernike__lt__(zs["a"], zs["b"])
    /\ ~Zernike__eq__(zs["a"], zs["b"])

----------------------------------------------------------------------------
(* Properties of ZernikeWavefront *)

\* the step in which the constructor runs
WConstructStep == wargs = NoArgs /\ wargs' # NoArgs

IsNoll(order) == order.type = "str" /\ order.val \in CaseVariants(s_noll)
IsAnsi(order) == order.type = "str" /\ order.val \in CaseVariants(s_ansi)

\* the amplitude a mapping gives to the mode of linear index j, none if absent
CoefficientAt(zernikes, attr, j) ==
    {zernikes[i][2] : i \in {k \in 1..Len(zernikes) : zernikes[k][1][attr] = j}}

C7_Post(obj, args) ==
    (obj # NoObj /\ args.amplitudes.type = "list") =>
        LET q == args.amplitudes.val
        IN  /\ ZernikeWavefront__len__(obj) = Len(q)
            /\ IsNoll(args.order) \/ IsAnsi(args.order)
            /\ \A k \in 0..(Len(q) - 1) :
                 /\ IsNoll(args.order)
                      => CoefficientAt(obj.zernikes, "index_noll", k + 1) = {q[k + 1]}
                 /\ IsAnsi(args.order)
                      => CoefficientAt(obj.zernikes, "index_ansi", k) = {q[k + 1]}

\* C7: a wavefront built from a flat sequence of L scalars has exactly L modes,
\* and the amplitude at 0-based position k is the coefficient of Noll index k+1
\* under 'noll' and of ANSI index k under 'ansi', the order in any letter case.
C7_FlatSequence == [][WConstructStep => C7_Post(w', wargs')]_vars

\* a wavefront as built from MaxLen amplitudes under 'ANSI'
C7_Witness ==
    /\ w # NoObj
    /\ wargs.amplitudes.type = "list"
    /\ wargs.order = PyStr(upper(s_ansi))
    /\ Len(wargs.amplitudes.val) = MaxLen
    /\ wargs.amplitudes.val[1] # wargs.amplitudes.val[MaxLen]
    /\ w.amplitudes_ansi = wargs.amplitudes.val
    /\ Len(w.zernikes) = MaxLen

IndicesPresent(zernikes, attr) == {zernikes[i][1][attr] : i \in 1..Len(zernikes)}

\* view[j + shift] is the coefficient of the mode of index j, 0 if absent
ZeroFilled(view, zernikes, attr, shift) ==
    \A j \in (1 - shift)..(Len(view) - shift) :
        IF j \in IndicesPresent(zernikes, attr)
        THEN CoefficientAt(zernikes, attr, j) = {view[j + shift]}
        ELSE view[j + shift] = PyInt(0)

C8_Post(obj) ==
    (obj # NoObj /\ Len(obj.zernikes) > 0) =>
        /\ Len(obj.amplitudes_noll) = max_of(IndicesPresent(obj.zernikes, "index_noll"))
        /\ ZeroFilled(obj.amplitudes_noll, obj.zernikes, "index_noll", 0)
        /\ Len(obj.amplitudes_ansi)
               = max_of(IndicesPresent(obj.zernikes, "index_ansi")) + 1
        /\ ZeroFilled(obj.amplitudes_ansi, obj.zernikes, "index_ansi", 1)

\* C8: amplitudes_noll is as long as the largest Noll index present, its entry
\* j-1 the coefficient of Noll index j, 0 if absent; amplitudes_ansi is one
\* longer than the largest ANSI index present, its entry j the coefficient of
\* ANSI index j, 0 if absent.
C8_ZeroFilledViews == [][WConstructStep => C8_Post(w')]_vars

\* the wavefront {2: 2} under 'noll': Noll index 1 is absent and filled with 0
C8_Witness ==
    /\ w # NoObj
    /\ wargs = WCall(PyDict(<< <<PyInt(2), PyInt(2)>> >>), PyStr(s_noll))
    /\ Len(w.zernikes) = 1
    /\ w.amplitudes_noll = <<PyInt(0), PyInt(2)>>
    /\ w.amplitudes_ansi = <<PyInt(0), PyInt(0), PyInt(2)>>

\* the amplitudes of a call in the order the call gives them
Supplied(args) ==
    IF args.amplitudes.type = "dict"
    THEN [i \in 1..Len(args.amplitudes.val) |-> args.amplitudes.val[i][2]]
    ELSE args.amplitudes.val

\* C9 as claimed: amplitudes_requested lists the amplitudes in the order in which
\* they were supplied to the constructor (taken where every supplied amplitude
\* names a mode of its own).
C9_SuppliedOrder ==
    [][WConstructStep =>
         ((w' # NoObj /\ Len(w'.zernikes) = Len(Supplied(wargs')))
             => w'.amplitudes_requested = Supplied(wargs'))]_vars

\* the place of zernikes[i] among the modes present, counted by ANSI index
AnsiRank(zernikes, i) ==
    1 + Cardinality({j \in 1..Len(zernikes) :
                        zernikes[j][1]["index_ansi"] < zernikes[i][1]["index_ansi"]})

C9_Post(obj) ==
    obj # NoObj =>
        /\ Len(obj.amplitudes_requested) = Len(obj.zernikes)
        /\ \A i \in 1..Len(obj.zernikes) :
             obj.amplitudes_requested[AnsiRank(obj.zernikes, i)] = obj.zernikes[i][2]

\* C9 amended: amplitudes_requested lists the amplitudes of the modes present,
\* one entry per mode, in ascending order of ANSI index.
C9_AnsiOrder == [][WConstructStep => C9_Post(w')]_vars

\* [0, 2, 0] under 'noll' is requested back as (0, 0, 2)
C9_Witness ==
    /\ w # NoObj
    /\ wargs = WCall(PyList(<<PyInt(0), PyInt(2), PyInt(0)>>), PyStr(s_noll))
    /\ Len(w.zernikes) = 3
    /\ w.amplitudes_requested = <<PyInt(0), PyInt(0), PyInt(2)>>

\* C10 as claimed: ZernikeWavefront of an empty mapping or an empty sequence
\* returns a wavefront with no modes and empty amplitude views.
C10_EmptyWavefront ==
    (/\ wargs # NoArgs
     /\ wargs.amplitudes \in {PyDict(<<>>), PyList(<<>>)}
     /\ IsNoll(wargs.order) \/ IsAnsi(wargs.order))
    => /\ w # NoObj
       /\ err = "none"
       /\ ZernikeWavefront__len__(w) = 0
       /\ w.amplitudes_noll = <<>>
       /\ w.amplitudes_ansi = <<>>
       /\ w.amplitudes_requested = <<>>

\* C5 as claimed: reassigning the zernikes mapping or an amplitude view, or
\* setting or deleting an item of the mapping, raises and leaves the wavefront
\* as it was.
C5_WavefrontImmutable ==
    [][(WSetAttr \/ WSetItem \/ WDelItem) => (err' # "none" /\ w' = w)]_vars

----------------------------------------------------------------------------
(* ZernikeWavefront.random_wavefront *)

\* an entry of amplitude_ranges is a scalar PyInt(v) or a tuple/list of numbers

\* (np.isscalar(v) and v >= 0) or (isinstance(v, (tuple, list)) and len(v) == 2)
entry_accepted(v) ==
    \/ isscalar(v) /\ v.val >= 0
    \/ v.type \in {"tuple", "list"} /\ Len(v.val) = 2

\* (-v, v) if np.isscalar(v) else v
as_pair(v) == IF isscalar(v) THEN <<-v.val, v.val>> ELSE v.val

\* the checks of random_wavefront without the comparison of the two bounds
checked_ranges_first_only(amplitude_ranges, order) ==
    LET d == ensure_dict(amplitude_ranges, order)
    IN  IF d.raised # "none" THEN d
        ELSE IF \E i \in 1..Len(d.value) : ~entry_accepted(d.value[i][2])
        THEN Raise("ValueError")
        ELSE Ok([i \in 1..Len(d.value) |-> <<d.value[i][1], as_pair(d.value[i][2])>>])

\* random_wavefront up to its return statement: Ok(the items key -> (low, high))
\* or Raise
checked_ranges(amplitude_ranges, order) ==
    LET d == ensure_dict(amplitude_ranges, order)
    IN  IF d.raised # "none" THEN d
        ELSE IF \E i \in 1..Len(d.value) : ~entry_accepted(d.value[i][2])
        THEN Raise("ValueError")
        ELSE LET pairs == [i \in 1..Len(d.value) |->
                              <<d.value[i][1], as_pair(d.value[i][2])>>]
             IN  IF \E i \in 1..Len(pairs) : ~(pairs[i][2][1] <= pairs[i][2][2])
                 THEN Raise("ValueError")
                 ELSE Ok(pairs)

\* the values np.random.uniform(low, high) can return, on the integer grid:
\* low + (high - low) * u with u in [0, 1], whichever of the two is larger
uniform(low, high) == IF low <= high THEN low..high ELSE high..low

\* the outcomes of the draws {k: ranges.uniform(*v) for k, v in ...}: one
\* sample for each item, in the order of the items
RECURSIVE sample_choices(_)
sample_choices(pairs) ==
    IF Len(pairs) = 0 THEN {<<>>}
    ELSE {<<a>> \o rest :
            a \in uniform(pairs[1][2][1], pairs[1][2][2]),
            rest \in sample_choices(Tail(pairs))}

\* random_wavefront(amplitude_ranges, order) when the draws return samples:
\* the result of the call and the samples drawn
random_wavefront(amplitude_ranges, order, samples) ==
    LET c == checked_ranges(amplitude_ranges, order)
    IN  IF c.raised # "none" THEN [result |-> c, drawn |-> <<>>]
        ELSE [result |->
                  ZernikeWavefront__init__(
                      PyDict([i \in 1..Len(c.value) |->
                                 <<c.value[i][1], PyInt(samples[i])>>]),
                      order),
              drawn |-> samples]

----------------------------------------------------------------------------
(* One call of random_wavefront *)

\* the entries the ranges are made of: valid scalars and pairs, a negative
\* scalar, a pair with low > high, a tuple of one number, None
RangeEntries ==
    {PyInt(0), PyInt(1), PyInt(-1),
     PyTuple(<<0, 2>>), PyList(<<-1, 0>>), PyTuple(<<2, 0>>),
     PyTuple(<<1>>), None}

RangeKeys == {PyInt(0), PyInt(1), PyInt(2), PyTuple(<<1, 1>>)}

RandomInputs ==
    {WCall(PyDict(q), o) :
        q \in {r \in SeqsUpTo(RangeKeys \X RangeEntries, MaxItems) : DistinctKeys(r)},
        o \in {PyStr(s_noll), PyStr(s_ansi)}}
    \cup {WCall(PyList(q), PyStr(s_noll)) :
            q \in SeqsUpTo({PyInt(1), PyTuple(<<0, 2>>), PyInt(-1)}, MaxItems)}
    \cup {WCall(PyInt(1), PyStr(s_noll)),
          WCall(PyList(<<PyInt(1)>>), PyStr(s_zemax))}

\* w = ZernikeWavefront.random_wavefront(amplitude_ranges, order)
RandomWavefront ==
    /\ rargs = NoArgs
    /\ \E inp \in RandomInputs :
         LET c == checked_ranges(inp.amplitudes, inp.order)
         IN  \E samples \in (IF c.raised = "none" THEN sample_choices(c.value)
                             ELSE {<<>>}) :
               LET r == random_wavefront(inp.amplitudes, inp.order, samples)
               IN  /\ w' = IF r.result.raised = "none" THEN r.result.value ELSE w
                   /\ err' = r.result.raised
                   /\ draws' = draws \o r.drawn
                   /\ rargs' = inp
    /\ UNCHANGED <<zs, zargs, wargs, gridVars, psfVars>>

NextRandom == RandomWavefront

SpecRandom == Init /\ [][NextRandom]_vars

----------------------------------------------------------------------------
(* Properties of random_wavefront, under SpecRandom *)

\* the items of the ranges handed to the call
RangeItems == ensure_dict(rargs.amplitudes, rargs.order).value

\* a scalar v >= 0 or a pair (low, high) with low <= high
ValidEntry(v) ==
    \/ isscalar(v) /\ v.val >= 0
    \/ v.type \in {"tuple", "list"} /\ Len(v.val) = 2 /\ v.val[1] <= v.val[2]

\* a negative scalar or a pair with low > high
InvalidEntry(v) ==
    \/ isscalar(v) /\ v.val < 0
    \/ v.type \in {"tuple", "list"} /\ Len(v.val) = 2 /\ v.val[1] > v.val[2]

\* the bound an entry declares
BoundOf(v) == IF isscalar(v) THEN <<-v.val, v.val>> ELSE v.val

\* the call was made with ranges whose keys name modes and whose entries are
\* all valid
ValidRanges ==
    /\ rargs # NoArgs
    /\ ensure_dict(rargs.amplitudes, rargs.order).raised = "none"
    /\ \A i \in 1..Len(RangeItems) :
         /\ Zernike__init__(RangeItems[i][1], rargs.order).raised = "none"
         /\ ValidEntry(RangeItems[i][2])

\* the mode a key of the ranges names
ModeOf(k) == Zernike__init__(k, rargs.order).value

\* a wavefront was returned, it holds the modes the ranges name and no other,
\* and the amplitude of each mode lies within a bound declared for that mode
WithinBounds ==
    /\ err = "none"
    /\ w # NoObj
    /\ \A i \in 1..Len(RangeItems) : dict_has(w.zernikes, ModeOf(RangeItems[i][1]))
    /\ \A j \in 1..Len(w.zernikes) :
         \E i \in 1..Len(RangeItems) :
            /\ same_key(ModeOf(RangeItems[i][1]), w.zernikes[j][1])
            /\ BoundOf(RangeItems[i][2])[1] <= w.zernikes[j][2].val
            /\ w.zernikes[j][2].val <= BoundOf(RangeItems[i][2])[2]
    /\ \A j \in 1..Len(w.zernikes) : \A l \in 1..Len(w.zernikes) :
         same_key(w.zernikes[j][1], w.zernikes[l][1]) => j = l

\* C11: for any valid amplitude_ranges, random_wavefront returns a wavefront
\* with exactly one amplitude for each mode the ranges name, each within the
\* bound of its mode.  Violated by the ranges that name no mode at all: the
\* construction of the wavefront raises on them.
C11_RandomWithinBounds == ValidRanges => WithinBounds

\* the same for ranges that name at least one mode: this holds
RandomNonEmptyWithinBounds ==
    (ValidRanges /\ Len(RangeItems) > 0) => WithinBounds

\* C12: when an entry of amplitude_ranges is a negative scalar or a pair with
\* low > high, random_wavefront raises, whatever the other entries are, with
\* no sample drawn and no wavefront returned.
C12_InvalidRangeRejected ==
    (/\ rargs # NoArgs
     /\ ensure_dict(rargs.amplitudes, rargs.order).raised = "none"
     /\ \E i \in 1..Len(RangeItems) : InvalidEntry(RangeItems[i][2]))
    => (err = "ValueError" /\ draws = <<>> /\ w = NoObj)

\* a call with one valid and one invalid entry has raised
C12_Witness ==
    /\ rargs # NoArgs
    /\ ensure_dict(rargs.amplitudes, rargs.order).raised = "none"
    /\ \E i \in 1..Len(RangeItems) : \E j \in 1..Len(RangeItems) :
         /\ InvalidEntry(RangeItems[i][2])
         /\ RangeItems[i][2].type = "tuple"
         /\ ValidEntry(RangeItems[j][2])
         /\ Zernike__init__(RangeItems[j][1], rargs.order).raised = "none"
    /\ err = "ValueError"

----------------------------------------------------------------------------
(* Numbers and arrays of the evaluator                                     *)
(*                                                                         *)
(* An array is a function from its index tuples to its elements.  The      *)
(* polar coordinates of a point are kept exactly: an element of a rho      *)
(* array is [sq, d], the radius sqrt(sq) / d; the element of the theta     *)
(* array at the same index is the point [y, x] whose angle arctan2(y, x)   *)
(* it is, taken at the scale of rho, so that sq = y * y + x * x.           *)
(*                                                                         *)
(* A value computed at a point whose rho has denominator d is a sum of     *)
(* terms <<f, c>>: c / d^Deg for f = 0, and c / d^Deg * sqrt(f / pi) for   *)
(* a square-free f >= 1 (the normalisation prefactors); or it is nan.  It  *)
(* holds one term for each f whose c is not 0.                             *)

\* the degree of the common denominator: every Zernike object has n < RangeN
Deg == RangeN - 1

Tags == 0..(2 * RangeN)

NoTerms == {}

nan == [nan |-> TRUE, c |-> NoTerms]

\* the value of the one term <<f, c>>
Term(f, c) == [nan |-> FALSE, c |-> IF c = 0 THEN NoTerms ELSE {<<f, c>>}]

\* the rational r / d^Deg
Rational(r) == Term(0, r)

\* the c of the term f of a value
coef(v, f) ==
    IF \E t \in v.c : t[1] = f THEN (CHOOSE t \in v.c : t[1] = f)[2] ELSE 0

RECURSIVE pow(_, _)
pow(b, e) == IF e = 0 THEN 1 ELSE b * pow(b, e - 1)

\* a * v for an int a
num_scale(a, v) ==
    IF v.nan THEN nan
    ELSE [nan |-> FALSE, c |-> IF a = 0 THEN NoTerms ELSE {<<t[1], a * t[2]>> : t \in v.c}]

\* u + v
num_add(u, v) ==
    IF u.nan \/ v.nan THEN nan
    ELSE [nan |-> FALSE,
          c |-> {<<f, coef(u, f) + coef(v, f)>> :
                    f \in {t \in Tags : coef(u, t) + coef(v, t) # 0}}]

PyBool(b) == [type |-> "bool", val |-> b]

\* np.nan
py_nan == [type |-> "float", val |-> 0]

\* bool(v)
py_bool(v) == IF v.type = "bool" THEN v.val ELSE v.val # 0

\* the scalar v (an int, or np.nan) as a value at a point of denominator d
scalar_at(v, d) == IF v.type = "float" THEN nan ELSE Rational(v.val * pow(d, Deg))

\* scipy.special.binom for ints 0 <= k <= n, 0 otherwise
RECURSIVE binom(_, _)
binom(n, k) ==
    IF k < 0 \/ k > n THEN 0
    ELSE IF k = 0 THEN 1
    ELSE (binom(n - 1, k - 1) * n) \div k

\* (x + iy)^e as <<real part, imaginary part>>
RECURSIVE cpow(_, _, _)
cpow(x, y, e) ==
    IF e = 0 THEN <<1, 0>>
    ELSE LET p == cpow(x, y, e - 1)
         IN  <<p[1] * x - p[2] * y, p[1] * y + p[2] * x>>

\* q = s * s * f with f square-free: sqrt(q) = s * sqrt(f)
square_part(q) == CHOOSE s \in 1..q : q % (s * s) = 0 /\ \A t \in (s + 1)..q : q % (t * t) # 0

----------------------------------------------------------------------------
(* nm_polynomial *)

\* the coefficient of rho^(rn - 2k) in the radial sum, without its sign
radial_coefficient_unsigned(rn, rm, k) ==
    binom(rn - k, k) * binom(rn - 2 * k, (rn - rm) \div 2 - k)

\* (-1.) ** k * binom(rn - k, k) * binom(rn - 2 * k, (rn - rm) // 2 - k)
radial_coefficient(rn, rm, k) ==
    (IF k % 2 = 0 THEN 1 ELSE -1)
        * binom(rn - k, k) * binom(rn - 2 * k, (rn - rm) \div 2 - k)

\* the terms k in range(count) of radial * cos(rm * theta) (sin for zm < 0) at
\* one point, times d^rn:
\* rho^(rn-2k) * cos(rm * theta) = (rho^2)^((rn-2k-rm)/2) * Re((x + iy)^rm)
RECURSIVE radial_sum(_, _, _, _, _)
radial_sum(rn, rm, r, trig, count) ==
    IF count = 0 THEN 0
    ELSE LET k == count - 1
         IN  radial_sum(rn, rm, r, trig, k)
                 + radial_coefficient(rn, rm, k)
                       * pow(r.sq, (rn - 2 * k - rm) \div 2)
                       * pow(r.d, 2 * k)
                       * trig

\* radial * np.cos(rm * theta), or radial * np.sin(rm * theta), before the mask
radial_trig(zn, zm, r, t) ==
    LET rn == zn
        rm == abs(zm)
        z == cpow(t.x, t.y, rm)
    IN  radial_sum(rn, rm, r, IF zm >= 0 THEN z[1] ELSE z[2], (rn - rm) \div 2 + 1)

\* the test rho <= 1. with '<' in its place
rho_le_1_strict(r) == r.sq < r.d * r.d

\* rho <= 1.
rho_le_1(r) == r.sq <= r.d * r.d

\* nm_polynomial at one point
nm_polynomial_at(zn, zm, r, t, normed) ==
    LET rn == zn
        rm == abs(zm)
        q == IF rm = 0 THEN rn + 1 ELSE 2 * rn + 2
        s == square_part(q)
        value == IF rho_le_1(r)
                 THEN radial_trig(zn, zm, r, t) * pow(r.d, Deg - rn)
                 ELSE 0
    IN  IF (rn - rm) % 2 = 1 THEN Rational(0)
        ELSE IF normed
        THEN Term(q \div (s * s), s * value)
        ELSE Rational(value)

\* nm_polynomial(zn, zm, rho, theta, normed): Ok(the array) or Raise
nm_polynomial(zn, zm, rho, theta, normed) ==
    IF abs(zm) > zn THEN Raise("ValueError")
    ELSE Ok([p \in DOMAIN rho |-> nm_polynomial_at(zn, zm, rho[p], theta[p], normed)])

\* array < 1, elementwise
less_than_1(array, rho) ==
    [p \in DOMAIN array |->
        /\ ~array[p].nan
        /\ \A f \in Tags \ {0} : coef(array[p], f) = 0
        /\ coef(array[p], 0) < pow(rho[p].d, Deg)]

----------------------------------------------------------------------------
(* rho_theta, outside_mask and their lru_cache *)

\* np.linspace(-1, 1, size)[i - 1] * linspace_den(size)
linspace_den(size) == IF size > 1 THEN size - 1 ELSE 1
linspace(size, i) == -linspace_den(size) + 2 * (i - 1)

\* the body of rho_theta(size)
rho_theta(size) ==
    LET index == (1..size) \X (1..size)
        y == [p \in index |-> linspace(size, p[1])]
        x == [p \in index |-> linspace(size, p[2])]
    IN  [rho |-> [p \in index |-> [sq |-> y[p] * y[p] + x[p] * x[p],
                                   d |-> linspace_den(size)]],
         theta |-> [p \in index |-> [y |-> y[p], x |-> x[p]]]]

\* the body of outside_mask(size), given what rho_theta(size) returned
outside_mask(grid) ==
    less_than_1(nm_polynomial(0, 0, grid.rho, grid.theta, FALSE).value, grid.rho)

\* The source gives both caches maxsize=128; the model gives them maxsize.
maxsize == 2

\* a cache is the sequence of its <<key, result>> entries, the least recently
\* used first
cache_has(cache, key) == \E i \in 1..Len(cache) : cache[i][1] = key
cache_pos(cache, key) == CHOOSE i \in 1..Len(cache) : cache[i][1] = key

\* a hit: the entry becomes the most recently used
cache_touch(cache, key) ==
    LET i == cache_pos(cache, key)
    IN  SubSeq(cache, 1, i - 1) \o SubSeq(cache, i + 1, Len(cache)) \o <<cache[i]>>

\* a miss that stores without ever dropping an entry
cache_store_unbounded(cache, key, result) == Append(cache, <<key, result>>)

\* a miss: the result is stored, and the least recently used entry is dropped
\* when the cache is full
cache_store(cache, key, result) ==
    IF Len(cache) >= maxsize THEN Append(Tail(cache), <<key, result>>)
    ELSE Append(cache, <<key, result>>)

\* the two caches, and the function bodies a call has run
Caches(rho, mask) == [rho |-> rho, mask |-> mask]

\* rho_theta(size) through its cache
cached_rho_theta(caches, size) ==
    IF cache_has(caches.rho, size)
    THEN [value |-> caches.rho[cache_pos(caches.rho, size)][2],
          caches |-> [caches EXCEPT !.rho = cache_touch(caches.rho, size)],
          ran |-> <<>>]
    ELSE LET grid == rho_theta(size)
         IN  [value |-> grid,
              caches |-> [caches EXCEPT !.rho = cache_store(caches.rho, size, grid)],
              ran |-> <<"rho_theta">>]

\* outside_mask(size) through its cache
cached_outside_mask(caches, size) ==
    IF cache_has(caches.mask, size)
    THEN [value |-> caches.mask[cache_pos(caches.mask, size)][2],
          caches |-> [caches EXCEPT !.mask = cache_touch(caches.mask, size)],
          ran |-> <<>>]
    ELSE LET g == cached_rho_theta(caches, size)
             mask == outside_mask(g.value)
         IN  [value |-> mask,
              caches |-> [g.caches EXCEPT !.mask = cache_store(caches.mask, size, mask)],
              ran |-> <<"outside_mask">> \o g.ran]

----------------------------------------------------------------------------
(* Zernike.polynomial, Zernike.phase and the ZernikeWavefront sums *)

\* ans[mask] = outside
masked_assign(ans, mask, outside, rho) ==
    [p \in DOMAIN ans |-> IF mask[p] THEN scalar_at(outside, rho[p].d) ELSE ans[p]]

\* the cached grid of a size with the radius set to 0 where the mask holds
grid_assigned(cache, size, mask) ==
    [i \in 1..Len(cache) |->
        IF cache[i][1] # size THEN cache[i]
        ELSE <<size, [cache[i][2] EXCEPT
                        !.rho = [p \in DOMAIN mask |->
                                    IF mask[p] THEN [sq |-> 0, d |-> cache[i][2].rho[p].d]
                                    ELSE cache[i][2].rho[p]]]>>]

\* Zernike.polynomial that also assigns into the cached radius array
Zernike_polynomial_in_place(self, size, normed, outside, caches) ==
    IF ~(size > 0) THEN [result |-> Raise("ValueError"), caches |-> caches, ran |-> <<>>]
    ELSE LET g == cached_rho_theta(caches, size)
             ans == nm_polynomial(self["n"], self["m"], g.value.rho, g.value.theta,
                                  py_bool(normed))
             k == cached_outside_mask(g.caches, size)
         IN  [result |-> Ok(masked_assign(ans.value, k.value, outside, g.value.rho)),
              caches |-> [k.caches EXCEPT !.rho = grid_assigned(k.caches.rho, size, k.value)],
              ran |-> g.ran \o k.ran]

\* Zernike.polynomial(size, normed, outside): the result, the caches after the
\* call and the cached bodies it ran
Zernike_polynomial(self, size, normed, outside, caches) ==
    IF ~(size > 0) THEN [result |-> Raise("ValueError"), caches |-> caches, ran |-> <<>>]
    ELSE LET g == cached_rho_theta(caches, size)
             ans == nm_polynomial(self["n"], self["m"], g.value.rho, g.value.theta,
                                  py_bool(normed))
             k == cached_outside_mask(g.caches, size)
         IN  [result |-> Ok(masked_assign(ans.value, k.value, outside, g.value.rho)),
              caches |-> k.caches,
              ran |-> g.ran \o k.ran]

\* Zernike.phase(rho, theta, normed, outside): Ok(the array) or Raise
Zernike_phase(self, rho, theta, normed, outside) ==
    IF normed.type # "bool" THEN Raise("ValueError")
    ELSE IF outside.type \notin {"NoneType", "int", "float"} THEN Raise("ValueError")
    ELSE LET ans == nm_polynomial(self["n"], self["m"], rho, theta, py_bool(normed))
             unit == nm_polynomial(0, 0, rho, theta, FALSE)
         IN  IF outside.type # "NoneType"
             THEN Ok(masked_assign(ans.value, less_than_1(unit.value, rho), outside, rho))
             ELSE ans

\* the weighting that leaves the array as it is
array_scale_unweighted(a, array) == array

\* a * array for the amplitude a
array_scale(a, array) == [p \in DOMAIN array |-> num_scale(a.val, array[p])]

\* np.sum(arrays, axis=0) of a list of arrays of one shape
RECURSIVE np_sum(_)
np_sum(arrays) ==
    IF Len(arrays) = 1 THEN arrays[1]
    ELSE LET rest == np_sum(Tail(arrays))
         IN  [p \in DOMAIN arrays[1] |-> num_add(arrays[1][p], rest[p])]

\* [a * z.polynomial(size=size, normed=normed, outside=outside)
\*  for z, a in self.zernikes.items()], the calls made in the order of the items
RECURSIVE polynomial_terms(_, _, _, _, _, _, _)
polynomial_terms(items, size, normed, outside, caches, bodies, acc) ==
    IF Len(items) = 0 THEN [result |-> Ok(acc), caches |-> caches, ran |-> bodies]
    ELSE LET t == Zernike_polynomial(items[1][1], size, normed, outside, caches)
         IN  IF t.result.raised # "none"
             THEN [result |-> t.result, caches |-> t.caches, ran |-> bodies \o t.ran]
             ELSE polynomial_terms(Tail(items), size, normed, outside, t.caches,
                                   bodies \o t.ran,
                                   Append(acc, array_scale(items[1][2], t.result.value)))

\* ZernikeWavefront.polynomial(size, normed, outside)
ZernikeWavefront_polynomial(self, size, normed, outside, caches) ==
    LET t == polynomial_terms(self.zernikes, size, normed, outside, caches, <<>>, <<>>)
    IN  IF t.result.raised # "none" \/ Len(t.result.value) = 0 THEN t
        ELSE [t EXCEPT !.result = Ok(np_sum(t.result.value))]

\* [a * z.phase(rho=rho, theta=theta, normed=normed, outside=outside) ...]
RECURSIVE phase_terms(_, _, _, _, _, _)
phase_terms(items, rho, theta, normed, outside, acc) ==
    IF Len(items) = 0 THEN Ok(acc)
    ELSE LET t == Zernike_phase(items[1][1], rho, theta, normed, outside)
         IN  IF t.raised # "none" THEN t
             ELSE phase_terms(Tail(items), rho, theta, normed, outside,
                              Append(acc, array_scale(items[1][2], t.value)))

\* ZernikeWavefront.phase(rho, theta, normed, outside)
ZernikeWavefront_phase(self, rho, theta, normed, outside) ==
    LET t == phase_terms(self.zernikes, rho, theta, normed, outside, <<>>)
    IN  IF t.raised # "none" \/ Len(t.value) = 0 THEN t
        ELSE Ok(np_sum(t.value))

----------------------------------------------------------------------------
(* Calls of the cached functions and of the evaluator *)

\* The grid sizes the cached functions are called with are 1..NumSizes.
NumSizes == 4

\* The radii handed to nm_polynomial are p / q with q in 1..RhoDen.
RhoDen == 4

CacheSizes == 1..NumSizes

\* the grid sizes of the evaluations: none, one point, a grid with points
\* inside, on and outside the unit circle
PolySizes == {0, 1, 3}

\* the modes evaluated alone
PolyModes ==
    {Zernike__init__(PyTuple(nm), PyStr(s_noll)).value :
        nm \in {p \in (0..3) \X ((-3)..3) : p \in _nm_pairs}}

\* the wavefronts evaluated
PolyWavefronts ==
    {ZernikeWavefront__init__(PyDict(q), PyStr(s_noll)).value :
        q \in {r \in SeqsUpTo({PyInt(1), PyInt(3), PyInt(4)} \X {PyInt(1), PyInt(-2)},
                              MaxItems) : Len(r) > 0 /\ DistinctKeys(r)}}

Flags == {PyBool(TRUE), PyBool(FALSE)}

OutsideValues == {py_nan, PyInt(0), PyInt(5)}

\* rho_theta(size)
CallRhoTheta(sizes) ==
    /\ \E size \in sizes :
         LET r == cached_rho_theta(Caches(rho_cache, mask_cache), size)
         IN  /\ rho_cache' = r.caches.rho
             /\ mask_cache' = r.caches.mask
             /\ ran' = r.ran
             /\ ccall' = [fn |-> "rho_theta", size |-> size]
    /\ UNCHANGED <<call, out, objectVars, randomVars, psfVars>>

\* outside_mask(size)
CallOutsideMask(sizes) ==
    /\ \E size \in sizes :
         LET r == cached_outside_mask(Caches(rho_cache, mask_cache), size)
         IN  /\ rho_cache' = r.caches.rho
             /\ mask_cache' = r.caches.mask
             /\ ran' = r.ran
             /\ ccall' = [fn |-> "outside_mask", size |-> size]
    /\ UNCHANGED <<call, out, objectVars, randomVars, psfVars>>

\* an evaluation that goes through the caches has returned r
Evaluated(c, r) ==
    /\ call' = c
    /\ out' = r.result
    /\ rho_cache' = r.caches.rho
    /\ mask_cache' = r.caches.mask
    /\ ran' = r.ran
    /\ UNCHANGED <<ccall, objectVars, randomVars, psfVars>>

\* an evaluation on coordinates handed in has returned r
Returned(c, r) ==
    /\ call' = c
    /\ out' = r
    /\ UNCHANGED <<rho_cache, mask_cache, ran, ccall, objectVars, randomVars, psfVars>>

\* the one-point arrays rho = p / q, theta = 0
point_rho(p, q) == [i \in {<<1>>} |-> [sq |-> p * p, d |-> q]]
point_theta(p, q) == [i \in {<<1>>} |-> [y |-> 0, x |-> p]]

\* nm_polynomial(zn, zm, rho, theta, normed) at a point of the positive x axis
NmPolynomialPoint ==
    /\ call = NoArgs
    /\ \E zn \in 0..(RangeN - 1), zm \in (-RangeN)..RangeN, normed \in BOOLEAN :
         \E q \in 1..RhoDen :
           \E p \in 0..(q + 1) :
             Returned([fn |-> "nm_polynomial", zn |-> zn, zm |-> zm, p |-> p, q |-> q,
                       normed |-> normed],
                      nm_polynomial(zn, zm, point_rho(p, q), point_theta(p, q), normed))

\* nm_polynomial(zn, zm, *rho_theta(size), normed)
NmPolynomialGrid ==
    /\ call = NoArgs
    /\ \E zn \in 0..2, zm \in (-2)..2, normed \in BOOLEAN, size \in PolySizes :
         LET g == cached_rho_theta(Caches(rho_cache, mask_cache), size)
         IN  Evaluated([fn |-> "nm_polynomial_grid", zn |-> zn, zm |-> zm,
                        size |-> size, normed |-> normed],
                       [result |-> nm_polynomial(zn, zm, g.value.rho, g.value.theta,
                                                 normed),
                        caches |-> g.caches, ran |-> g.ran])

\* outside_mask(size)
OutsideMask ==
    /\ call = NoArgs
    /\ \E size \in PolySizes :
         LET k == cached_outside_mask(Caches(rho_cache, mask_cache), size)
         IN  Evaluated([fn |-> "outside_mask", size |-> size],
                       [result |-> Ok(k.value), caches |-> k.caches, ran |-> k.ran])

\* z.polynomial(size, normed, outside)
ZPolynomial ==
    /\ call = NoArgs
    /\ \E z \in PolyModes, size \in PolySizes, normed \in Flags \cup {PyInt(1)},
          outside \in OutsideValues :
         Evaluated([fn |-> "Zernike.polynomial", self |-> z, size |-> size,
                    normed |-> normed, outside |-> outside],
                   Zernike_polynomial(z, size, normed, outside,
                                      Caches(rho_cache, mask_cache)))

\* z.phase(*rho_theta(size), normed, outside)
ZPhase ==
    /\ call = NoArgs
    /\ \E z \in PolyModes, size \in PolySizes \ {0}, normed \in Flags \cup {PyInt(1)},
          outside \in OutsideValues \cup {None, PyTuple(<<0, 0>>)} :
         LET g == rho_theta(size)
         IN  Returned([fn |-> "Zernike.phase", self |-> z, size |-> size,
                       normed |-> normed, outside |-> outside],
                      Zernike_phase(z, g.rho, g.theta, normed, outside))

\* wf.polynomial(size, normed, outside)
WPolynomial ==
    /\ call = NoArgs
    /\ \E wf \in PolyWavefronts, size \in PolySizes, normed \in Flags,
          outside \in OutsideValues :
         Evaluated([fn |-> "ZernikeWavefront.polynomial", self |-> wf, size |-> size,
                    normed |-> normed, outside |-> outside],
                   ZernikeWavefront_polynomial(wf, size, normed, outside,
                                               Caches(rho_cache, mask_cache)))

\* wf.phase(*rho_theta(size), normed, outside)
WPhase ==
    /\ call = NoArgs
    /\ \E wf \in PolyWavefronts, size \in PolySizes \ {0}, normed \in Flags,
          outside \in OutsideValues \cup {None} :
         LET g == rho_theta(size)
         IN  Returned([fn |-> "ZernikeWavefront.phase", self |-> wf, size |-> size,
                       normed |-> normed, outside |-> outside],
                      ZernikeWavefront_phase(wf, g.rho, g.theta, normed, outside))

\* the cached functions called on their own, with every size
NextCache ==
    \/ CallRhoTheta(CacheSizes)
    \/ CallOutsideMask(CacheSizes)

SpecCache == Init /\ [][NextCache]_vars

\* one evaluation, the caches empty before it
NextPolynomial ==
    \/ NmPolynomialPoint
    \/ NmPolynomialGrid
    \/ OutsideMask
    \/ ZPolynomial
    \/ ZPhase
    \/ WPolynomial
    \/ WPhase

SpecPolynomial == Init /\ [][NextPolynomial]_vars

----------------------------------------------------------------------------
(* Properties of the evaluator, under SpecPolynomial *)

\* the point at index p of the grid of a size lies within the unit circle, on
\* it, or outside it
GridSq(size, p) ==
    linspace(size, p[1]) * linspace(size, p[1]) + linspace(size, p[2]) * linspace(size, p[2])
GridInside(size, p) == GridSq(size, p) <= linspace_den(size) * linspace_den(size)
GridOn(size, p) == GridSq(size, p) = linspace_den(size) * linspace_den(size)

\* the numbers 1 and 0 at a point of denominator d
One(d) == Rational(pow(d, Deg))
Zero == Rational(0)

Returns(fn) == call # NoArgs /\ call.fn = fn /\ out.raised = "none"

\* C13: nm_polynomial(0, 0, rho, theta, normed=False) is 1 at every point with
\* rho <= 1, the points with rho = 1 among them, and 0 at every point with
\* rho > 1, and outside_mask is true exactly at the grid points with rho > 1.
C13_UnitDisc ==
    /\ (Returns("nm_polynomial") /\ call.zn = 0 /\ call.zm = 0 /\ ~call.normed)
       => out.value[<<1>>] = IF call.p <= call.q THEN One(call.q) ELSE Zero
    /\ (Returns("nm_polynomial_grid") /\ call.zn = 0 /\ call.zm = 0 /\ ~call.normed)
       => \A p \in DOMAIN out.value :
             out.value[p] = IF GridInside(call.size, p)
                            THEN One(linspace_den(call.size)) ELSE Zero
    /\ Returns("outside_mask")
       => \A p \in DOMAIN out.value : out.value[p] <=> ~GridInside(call.size, p)

\* outside_mask has returned a mask for a grid with points on the unit circle
\* and points outside it
C13_Witness ==
    /\ Returns("outside_mask")
    /\ \E p \in DOMAIN out.value : GridOn(call.size, p) /\ ~out.value[p]
    /\ \E p \in DOMAIN out.value : ~GridInside(call.size, p) /\ out.value[p]

----------------------------------------------------------------------------
(* Properties of the caches, under SpecCache *)

Entries(cache) == {cache[i] : i \in 1..Len(cache)}

Bodies(q) == {q[i] : i \in 1..Len(q)}

\* a step is a call with grid size s
CalledWith(fn, s) == ccall' = [fn |-> fn, size |-> s]

\* C14 as claimed: an entry of either cache is never dropped, and a call with
\* a size the cache has held an entry for is answered without running the
\* body again.  Violated: a call with a new size drops the least recently
\* used entry of a full cache.
C14_NeverDropped ==
    [][/\ Entries(rho_cache) \subseteq Entries(rho_cache')
       /\ Entries(mask_cache) \subseteq Entries(mask_cache')
       /\ \A s \in CacheSizes :
            /\ (CalledWith("rho_theta", s) /\ cache_has(rho_cache, s)) => ran' = <<>>
            /\ (CalledWith("outside_mask", s) /\ cache_has(mask_cache, s)) => ran' = <<>>
      ]_vars

\* what a call with key s makes of a cache: the entry of s is held and is the
\* most recently used; after a hit the entries are those held before; after a
\* miss the only entry that can be gone is the least recently used one, and
\* only from a full cache; the cache never holds more than maxsize entries
LruAfter(old, new, s) ==
    /\ Len(new) <= maxsize
    /\ Len(new) > 0 /\ new[Len(new)][1] = s
    /\ IF cache_has(old, s) THEN Entries(new) = Entries(old)
       ELSE /\ Entries(old) \ Entries(new)
                  \subseteq (IF Len(old) = maxsize THEN {old[1]} ELSE {})
            /\ Len(old) = maxsize => old[1] \notin Entries(new)

\* C14, amended: a call with a size whose entry the cache holds is answered
\* without running the body, and makes the entry the most recently used; a
\* call with any other size runs the body, stores the result, and drops the
\* least recently used entry when the cache already holds maxsize entries;
\* no entry is dropped otherwise.
C14_LruCache ==
    [][\A s \in CacheSizes :
         /\ CalledWith("rho_theta", s) =>
              /\ LruAfter(rho_cache, rho_cache', s)
              /\ mask_cache' = mask_cache
              /\ ran' = IF cache_has(rho_cache, s) THEN <<>> ELSE <<"rho_theta">>
         /\ CalledWith("outside_mask", s) =>
              /\ LruAfter(mask_cache, mask_cache', s)
              /\ IF cache_has(mask_cache, s)
                 THEN rho_cache' = rho_cache /\ ran' = <<>>
                 ELSE /\ LruAfter(rho_cache, rho_cache', s)
                      /\ "outside_mask" \in Bodies(ran')
                      /\ "rho_theta" \in Bodies(ran') <=> ~cache_has(rho_cache, s)
      ]_vars

\* an entry of the rho_theta cache has been dropped: outside_mask holds a mask
\* whose grid rho_theta no longer holds
C14_Witness ==
    \E s \in CacheSizes : cache_has(mask_cache, s) /\ ~cache_has(rho_cache, s)

\* a_1 + ... + a_k over the items of a wavefront
RECURSIVE SumOfAmplitudes(_)
SumOfAmplitudes(items) ==
    IF Len(items) = 0 THEN 0 ELSE items[1][2].val + SumOfAmplitudes(Tail(items))

\* the call was made on a wavefront with a finite outside value
WavefrontCallWithOutside ==
    /\ call # NoArgs
    /\ call.fn \in {"ZernikeWavefront.polynomial", "ZernikeWavefront.phase"}
    /\ out.raised = "none"
    /\ call.outside.type = "int"

\* C18: with a finite outside value v, every grid point outside the unit disc
\* holds v * (a_1 + ... + a_k) in the result of ZernikeWavefront.polynomial,
\* and in the result of ZernikeWavefront.phase on the same coordinates.
C18_OutsideWeighted ==
    WavefrontCallWithOutside =>
        \A p \in DOMAIN out.value :
            ~GridInside(call.size, p) =>
                out.value[p] = Rational(call.outside.val
                                            * SumOfAmplitudes(call.self.zernikes)
                                            * pow(linspace_den(call.size), Deg))

\* a wavefront of two modes has been evaluated with v = 5, and a point outside
\* the disc holds a value other than v
C18_Witness ==
    /\ WavefrontCallWithOutside
    /\ call.fn = "ZernikeWavefront.polynomial"
    /\ Len(call.self.zernikes) = 2
    /\ call.outside.val = 5
    /\ \E p \in DOMAIN out.value :
         /\ ~GridInside(call.size, p)
         /\ out.value[p] # Rational(5 * pow(linspace_den(call.size), Deg))

\* nm_polynomial was evaluated without normalisation for a valid descriptor
\* with m >= 0 at rho = p / q <= 1 on the positive x axis, where cos(m * theta)
\* is 1: the value is the radial sum at rho
RadialEvaluated ==
    /\ Returns("nm_polynomial")
    /\ ~call.normed
    /\ call.zm >= 0
    /\ <<call.zn, call.zm>> \in _nm_pairs
    /\ call.p <= call.q

\* the radial sum at rho = p / q, times q^Deg
RadialValue == coef(out.value[<<1>>], 0)

----------------------------------------------------------------------------
(* class PsfGenerator3D                                                    *)
(*                                                                         *)
(* Arrays are indexed from 0: <<z, y, x>> and <<y, x>>.  A frequency is    *)
(* kept as its integer numerator f, the frequency f / (d * n).  A complex  *)
(* number that the code computes with exp and ifftn is kept as the term    *)
(* that names how it is computed; the number 0 is CZero.                   *)

\* np.fft.fftfreq(n, d)[i] * (d * n)
fftfreq(n, i) == IF i <= (n - 1) \div 2 THEN i ELSE i - n

\* np.fft.fftshift of a sequence of length n: the element at i moves to
\* i + n // 2
fftshift(x, n) == [i \in 0..(n - 1) |-> x[(i + n - n \div 2) % n]]

\* np.fft.ifftshift(a, axes=(1, 2)) of an array of shape (nz, ny, nx)
ifftshift_axes12(a, ny, nx) ==
    [p \in DOMAIN a |-> a[<<p[1], (p[2] + ny \div 2) % ny, (p[3] + nx \div 2) % nx>>]]

\* np.fft.fftshift(a, axes=(1, 2)) of an array of shape (nz, ny, nx)
fftshift_axes12(a, ny, nx) ==
    [p \in DOMAIN a |->
        a[<<p[1], (p[2] + ny - ny \div 2) % ny, (p[3] + nx - nx \div 2) % nx>>]]

CZero == [zero |-> TRUE]

\* np.exp(-2.j * np.pi * kz / lam * sqrt(hn / hd)), kz = z2 / 2
Cexp(z2, lam, hn, hd) == [zero |-> FALSE, z2 |-> z2, lam |-> lam, hn |-> hn, hd |-> hd]

\* warnings.filterwarnings(action): the filter is put in front of the others
filterwarnings(fs, action) ==
    <<action>> \o SelectSeq(fs, LAMBDA f : f # action)

\* The radius of a frequency is computed twice in float64: kr3 =
\* np.sqrt(ky3 ** 2 + kx3 ** 2) for k_mask3 (line 371) and kr2 =
\* np.hypot(ky2, kx2) for k_mask2 (line 389).  The model computes with exact
\* rationals, and the two roundings matter only at a frequency on the pupil
\* rim, whose exact radius is k_cut: there each float radius is below k_cut or
\* not as the operations round.  With unit voxels, lam_detection = 2 and
\* na_detection = 1 (k_cut = 0.5) IEEE 754 double arithmetic gives
\*   ny = 2,  ky = 1/2,  kx = 0      : kr3 = 0.5, kr2 = 0.5;
\*   ny = 98, ky = 49/98, kx = 0     : kr3 = kr2 = 0.49999999999999994,
\*                                     fftfreq's 49 * (1.0 / 98) being that;
\*   ny = nx = 82, ky = 9/82, kx = 40/82 :
\*                                     kr3 = 0.49999999999999994, kr2 = 0.5.
\* sqrt: kr3 < k_cut on the rim; hypot: kr2 < k_cut on the rim.
ExactRim == [sqrt |-> FALSE, hypot |-> FALSE]

RimRoundings ==
    {ExactRim, [sqrt |-> TRUE, hypot |-> TRUE], [sqrt |-> TRUE, hypot |-> FALSE]}

\* PsfGenerator3D(psf_shape, units, lam_detection, n, na_detection, masked,
\* switch), the float radii on the rim rounded as rim says: Ok(the object) or
\* Raise
PsfGenerator3D__init__(psf_shape, units, lam_detection, n, na_detection, masked, switch, rim) ==
    IF Len(psf_shape) # 3 \/ Len(units) # 3 THEN Raise("ValueError")
    ELSE
    LET nz == psf_shape[1]
        ny == psf_shape[2]
        nx == psf_shape[3]
        dz == units[1]
        dy == units[2]
        dx == units[3]
        ky == fftshift([i \in 0..(ny - 1) |-> fftfreq(ny, i)], ny)
        kx == fftshift([i \in 0..(nx - 1) |-> fftfreq(nx, i)], nx)
        \* twice z
        z == [i \in 0..(nz - 1) |->
                 IF nz % 2 = 0 THEN dz * (2 * i - (nz - 1))
                 ELSE dz * 2 * (i - nz \div 2)]
        index3 == (0..(nz - 1)) \X (0..(ny - 1)) \X (0..(nx - 1))
        index2 == (0..(ny - 1)) \X (0..(nx - 1))
        \* kr ** 2 = krn(fy, fx) / krd
        krn(fy, fx) == fy * fy * (dx * nx) * (dx * nx) + fx * fx * (dy * ny) * (dy * ny)
        krd == (dy * ny) * (dy * ny) * (dx * nx) * (dx * nx)
        below_cut(fy, fx) ==
            krn(fy, fx) * lam_detection * lam_detection < na_detection * na_detection * krd
        on_cut(fy, fx) ==
            krn(fy, fx) * lam_detection * lam_detection = na_detection * na_detection * krd
        \* kr3 < self.k_cut and kr2 < self.k_cut
        kr3_below_cut(fy, fx) == below_cut(fy, fx) \/ (on_cut(fy, fx) /\ rim.sqrt)
        kr2_below_cut(fy, fx) == below_cut(fy, fx) \/ (on_cut(fy, fx) /\ rim.hypot)
        \* self.n ** 2 - kr3 ** 2 * lam_detection ** 2 = hn(fy, fx) / krd
        hn(fy, fx) == n * n * krd - krn(fy, fx) * lam_detection * lam_detection
        kz3 == [p \in index3 |-> z[p[1]]]
        ky3 == [p \in index3 |-> ky[p[2]]]
        kx3 == [p \in index3 |-> kx[p[3]]]
        k_mask3 == [p \in index3 |-> kr3_below_cut(ky3[p], kx3[p])]
        h == [p \in index3 |-> [nan |-> hn(ky3[p], kx3[p]) < 0,
                                num |-> hn(ky3[p], kx3[p]), den |-> krd]]
        k_prop == [p \in index3 |->
                      IF h[p].nan THEN CZero
                      ELSE Cexp(kz3[p], lam_detection, h[p].num, h[p].den)]
        k_base == IF masked
                  THEN [p \in index3 |-> IF k_mask3[p] THEN k_prop[p] ELSE CZero]
                  ELSE k_prop
        \* kr2 / self.k_cut = sqrt(sq) / d with the point (x, y) / d
        scale == IF switch THEN lam_detection ELSE 1
        d == IF switch THEN dy * ny * dx * nx * na_detection ELSE dy * ny * dx * nx
        px(q) == kx[q[2]] * scale * dy * ny
        py(q) == ky[q[1]] * scale * dx * nx
    IN  Ok([na_detection |-> na_detection, n |-> n, lam_detection |-> lam_detection,
            nz |-> nz, ny |-> ny, nx |-> nx, dz |-> dz, dy |-> dy, dx |-> dx,
            masked |-> masked, switch |-> switch,
            kz3 |-> kz3, ky3 |-> ky3, kx3 |-> kx3,
            k_cut |-> <<na_detection, lam_detection>>,
            k_mask3 |-> k_mask3,
            h |-> h,
            k_prop |-> k_prop,
            k_base |-> k_base,
            k_rho |-> [q \in index2 |-> [sq |-> px(q) * px(q) + py(q) * py(q), d |-> d]],
            k_phi |-> [q \in index2 |-> [y |-> py(q), x |-> px(q)]],
            k_mask2 |-> [q \in index2 |-> kr2_below_cut(ky[q[1]], kx[q[2]])],
            my_ifftn |-> "ifftn",
            my_ifftshift |-> "fftshift"])

\* self.my_ifftshift(x): the lambda calls np.fft.fftshift
my_ifftshift(self, x) ==
    IF self.my_ifftshift = "fftshift" THEN fftshift_axes12(x, self.ny, self.nx)
    ELSE ifftshift_axes12(x, self.ny, self.nx)

\* self.my_ifftn(ku): the element at p of np.fft.ifftn(ku, axes=(1, 2)) is
\* kept as the term that names it
my_ifftn(self, ku) ==
    [ku |-> ku, field |-> [p \in DOMAIN ku |-> [at |-> p, abs2 |-> FALSE]]]

\* a method returns its result and the object as the call leaves it
Left(result, self) == [result |-> result, self |-> self]

\* masked_phase that applies the mask to self.k_rho in place
PsfGenerator3D_masked_phase_in_place(self, phi, normed, masked) ==
    LET k_rho == [q \in DOMAIN self.k_rho |->
                     IF self.k_mask2[q] THEN self.k_rho[q]
                     ELSE [sq |-> 0, d |-> self.k_rho[q].d]]
        phase == ZernikeWavefront_phase(phi, k_rho, self.k_phi, normed, None)
    IN  IF masked THEN Left(phase, [self EXCEPT !.k_rho = k_rho])
        ELSE Left(ZernikeWavefront_phase(phi, self.k_rho, self.k_phi, normed, None), self)

\* lines 411-414 once phi.phase(...) is evaluated to phase
masked_phase_of(self, phase, masked) ==
    IF phase.raised # "none" THEN Left(phase, self)
    ELSE IF masked
    THEN Left(Ok([q \in DOMAIN phase.value |->
                     IF self.k_mask2[q] THEN phase.value[q]
                     ELSE num_scale(0, phase.value[q])]),
              self)
    ELSE Left(phase, self)

\* PsfGenerator3D.masked_phase(phi, normed, masked)
PsfGenerator3D_masked_phase(self, phi, normed, masked) ==
    masked_phase_of(self,
                    ZernikeWavefront_phase(phi, self.k_rho, self.k_phi, normed, None),
                    masked)

\* lines 424-428 once self.masked_phase(...) has left m
coherent_psf_of(m) ==
    LET self1 == m.self
        \* self.k_base * np.exp(2.j * np.pi * phi / self.lam_detection)
        ku == [p \in DOMAIN self1.k_base |->
                  IF self1.k_base[p].zero THEN CZero
                  ELSE [zero |-> FALSE, base |-> self1.k_base[p],
                        phase |-> m.result.value[<<p[2], p[3]>>],
                        lam |-> self1.lam_detection]]
    IN  IF m.result.raised # "none" THEN m
        ELSE Left(Ok(my_ifftn(self1, ku)), self1)

\* PsfGenerator3D.coherent_psf(phi, normed, masked)
PsfGenerator3D_coherent_psf(self, phi, normed, masked) ==
    coherent_psf_of(PsfGenerator3D_masked_phase(self, phi, normed, masked))

\* np.abs(psf) ** 2
abs_squared(a) ==
    [a EXCEPT !.field = [p \in DOMAIN a.field |-> [a.field[p] EXCEPT !.abs2 = TRUE]]]

\* self.my_ifftshift(psf) once self.coherent_psf(...) has left c and value is
\* the array to centre
centred_psf_of(c, value) ==
    IF c.result.raised # "none" THEN c
    ELSE Left(Ok([value EXCEPT !.field = my_ifftshift(c.self, value.field)]), c.self)

\* line 442 once self.coherent_psf(...) has left c
incoherent_psf_of(c) == centred_psf_of(c, c.result.value)

\* PsfGenerator3D.incoherent_psf(phi, normed, masked)
PsfGenerator3D_incoherent_psf(self, phi, normed, masked) ==
    incoherent_psf_of(PsfGenerator3D_coherent_psf(self, phi, normed, masked))

\* incoherent_psf_abs that returns the squared magnitude as it is
PsfGenerator3D_incoherent_psf_abs_unshifted(self, phi, normed, masked) ==
    LET c == PsfGenerator3D_coherent_psf(self, phi, normed, masked)
    IN  IF c.result.raised # "none" THEN c
        ELSE Left(Ok(abs_squared(c.result.value)), c.self)

\* lines 454-456 once self.coherent_psf(...) has left c
incoherent_psf_abs_of(c) ==
    IF c.result.raised # "none" THEN c
    ELSE centred_psf_of(c, abs_squared(c.result.value))

\* PsfGenerator3D.incoherent_psf_abs(phi, normed, masked)
PsfGenerator3D_incoherent_psf_abs(self, phi, normed, masked) ==
    incoherent_psf_abs_of(PsfGenerator3D_coherent_psf(self, phi, normed, masked))

----------------------------------------------------------------------------
(* A PsfGenerator3D object: construction, then calls of its methods *)

\* The largest generators have the shape (MaxNz, MaxN, MaxN).
MaxNz == 2
MaxN == 3

PsfCall(psf_shape, units, lam_detection, n, na_detection, masked, switch, rim) ==
    [psf_shape |-> psf_shape, units |-> units, lam_detection |-> lam_detection,
     n |-> n, na_detection |-> na_detection, masked |-> masked, switch |-> switch,
     rim |-> rim]

\* the shapes: one voxel, and every shape with an even or odd number of
\* slices and even or odd lateral lengths next to the largest
PsfShapes ==
    {<<1, 1, 1>>}
    \cup {<<nz, ny, nx>> : nz \in {MaxNz - 1, MaxNz},
                          ny \in {MaxN - 1, MaxN}, nx \in {MaxN - 1, MaxN}}

\* the shapes of the fewest slices that have a frequency on the pupil rim (an
\* even lateral length has the frequency 1/2)
RimShapes ==
    {shape \in PsfShapes :
        shape[1] = MaxNz - 1 /\ (shape[2] % 2 = 0 \/ shape[3] % 2 = 0)}

\* unit voxels and the cut-off frequency 1/2, with and without the pupil mask
\* and the rescaling, the radii exact; the masked generators of RimShapes
\* with the radii on the rim rounded below the cut-off; the cut-off frequency
\* 1; and a shape of two axes
PsfInputs ==
    {PsfCall(shape, <<1, 1, 1>>, 2, 1, 1, masked, switch, ExactRim) :
        shape \in PsfShapes, masked \in BOOLEAN, switch \in BOOLEAN}
    \cup {PsfCall(shape, <<1, 1, 1>>, 2, 1, 1, TRUE, switch, rim) :
        shape \in RimShapes, switch \in BOOLEAN, rim \in RimRoundings}
    \cup {PsfCall(<<MaxNz, MaxN, MaxN>>, <<1, 1, 1>>, 1, 1, 1, TRUE, TRUE, ExactRim),
          PsfCall(<<2, 2>>, <<1, 1, 1>>, 1, 1, 1, TRUE, TRUE, ExactRim)}

\* the wavefronts handed to the methods
PsfWavefronts ==
    {ZernikeWavefront__init__(PyDict(q), PyStr(s_noll)).value :
        q \in {<<<<PyInt(1), PyInt(2)>>>>,
               <<<<PyInt(4), PyInt(1)>>, <<PyInt(2), PyInt(-2)>>>>}}

\* the arguments the methods are called with
PsfArguments ==
    {[phi |-> phi, normed |-> PyBool(f[1]), masked |-> f[2]] :
        phi \in PsfWavefronts,
        f \in {<<TRUE, TRUE>>, <<FALSE, TRUE>>, <<TRUE, FALSE>>}}

\* arguments whose normed is no bool
BadArguments ==
    {[phi |-> phi, normed |-> PyInt(1), masked |-> TRUE] : phi \in PsfWavefronts}

MethodCall(fn, a) ==
    [fn |-> fn, phi |-> a.phi, normed |-> a.normed, masked |-> a.masked]

\* psf = PsfGenerator3D(...)
PsfConstruct ==
    /\ pcall = NoArgs
    /\ \E inp \in PsfInputs :
         LET r == PsfGenerator3D__init__(inp.psf_shape, inp.units, inp.lam_detection,
                                         inp.n, inp.na_detection, inp.masked, inp.switch,
                                         inp.rim)
         IN  /\ psf' = IF r.raised = "none" THEN r.value ELSE psf
             /\ fp' = IF r.raised = "none" THEN inp.rim ELSE fp
             /\ filters' = IF r.raised = "none" THEN filterwarnings(filters, "ignore")
                           ELSE filters
             /\ pcall' = [fn |-> "__init__", args |-> inp]
             /\ pout' = r
    /\ UNCHANGED <<warned, objectVars, randomVars, gridVars>>

\* a method of the generator is called, and r is what it leaves
Called(c, r) ==
    /\ pcall' = c
    /\ pout' = r.result
    /\ psf' = r.self
    /\ UNCHANGED <<filters, warned, fp, objectVars, randomVars, gridVars>>

\* psf.masked_phase(phi, normed, masked)
MaskedPhase ==
    /\ psf # NoObj
    /\ \E a \in PsfArguments \cup BadArguments :
         Called(MethodCall("masked_phase", a),
                PsfGenerator3D_masked_phase(psf, a.phi, a.normed, a.masked))

\* psf.coherent_psf(phi, normed, masked)
CoherentPsf ==
    /\ psf # NoObj
    /\ \E a \in PsfArguments :
         Called(MethodCall("coherent_psf", a),
                PsfGenerator3D_coherent_psf(psf, a.phi, a.normed, a.masked))

\* psf.incoherent_psf(phi, normed, masked)
IncoherentPsf ==
    /\ psf # NoObj
    /\ \E a \in PsfArguments :
         Called(MethodCall("incoherent_psf", a),
                PsfGenerator3D_incoherent_psf(psf, a.phi, a.normed, a.masked))

\* psf.incoherent_psf_abs(phi, normed, masked)
IncoherentPsfAbs ==
    /\ psf # NoObj
    /\ \E a \in PsfArguments :
         Called(MethodCall("incoherent_psf_abs", a),
                PsfGenerator3D_incoherent_psf_abs(psf, a.phi, a.normed, a.masked))

\* Object3D.check_object() on an object with nothing in it: warnings.warn is
\* shown unless a filter ignores it
CheckObject ==
    /\ warned = "none"
    /\ warned' = IF Len(filters) > 0 /\ filters[1] = "ignore" THEN "ignored" ELSE "shown"
    /\ UNCHANGED <<psf, filters, pcall, pout, fp, objectVars, randomVars, gridVars>>

NextPsf ==
    \/ PsfConstruct
    \/ MaskedPhase
    \/ CoherentPsf
    \/ IncoherentPsf
    \/ IncoherentPsfAbs
    \/ CheckObject

SpecPsf == Init /\ [][NextPsf]_vars

----------------------------------------------------------------------------
(* Properties of the generator, under SpecPsf *)

\* C15: constructing the objects and calling their operations changes no
\* process-wide state other than the coordinate-grid caches; the warning
\* filters of the process are after every call what they were before it.
\* Violated by the construction of a PsfGenerator3D.
C15_NoGlobalChange == [][filters' = filters]_vars

\* the generator as its constructor leaves it, from the constructor arguments
\* the object keeps
Fresh ==
    PsfGenerator3D__init__(<<psf.nz, psf.ny, psf.nx>>, <<psf.dz, psf.dy, psf.dx>>,
                           psf.lam_detection, psf.n, psf.na_detection,
                           psf.masked, psf.switch, fp).value

DerivedQuantities == {"k_cut", "k_prop", "k_base", "k_mask2", "k_rho", "k_phi"}

\* what the last call returns on the generator g
ResultOn(g) ==
    IF pcall.fn = "masked_phase"
    THEN PsfGenerator3D_masked_phase(g, pcall.phi, pcall.normed, pcall.masked).result
    ELSE IF pcall.fn = "coherent_psf"
    THEN PsfGenerator3D_coherent_psf(g, pcall.phi, pcall.normed, pcall.masked).result
    ELSE IF pcall.fn = "incoherent_psf"
    THEN PsfGenerator3D_incoherent_psf(g, pcall.phi, pcall.normed, pcall.masked).result
    ELSE PsfGenerator3D_incoherent_psf_abs(g, pcall.phi, pcall.normed, pcall.masked).result

MethodCalled == psf # NoObj /\ pcall.fn # "__init__"

\* C16: after any sequence of masked_phase, coherent_psf, incoherent_psf and
\* incoherent_psf_abs calls the derived quantities of the generator are those
\* of the end of its construction, and the result of the last call is the
\* result of that call on the generator as constructed.
C16_DerivedUnchanged ==
    psf # NoObj =>
        /\ \A f \in DerivedQuantities : psf[f] = Fresh[f]
        /\ MethodCalled => pout = ResultOn(Fresh)

\* a method has returned a field on a generator of more than one voxel
C16_Witness ==
    /\ MethodCalled
    /\ pcall.fn = "coherent_psf"
    /\ pout.raised = "none"
    /\ psf.ny > 1 /\ psf.nx > 1
    /\ \E q \in DOMAIN psf.k_mask2 : ~psf.k_mask2[q]

\* the lateral index a centred index comes from
Uncentred(n, i) == (i + n - n \div 2) % n

Centred(a) == my_ifftshift(psf, a)

\* C20 as claimed: the centring shift moves nothing to another z-slice and
\* undoes the centring of kx and ky of the construction, for every ny and nx:
\* applied to the centred frequencies it gives back the order of fftfreq.
\* Violated by an odd lateral length of 3 or more.
C20_ShiftInverse ==
    psf # NoObj =>
        /\ Centred(psf.kz3) = psf.kz3
        /\ \A p \in DOMAIN psf.kx3 :
             /\ Centred(psf.kx3)[p] = fftfreq(psf.nx, p[3])
             /\ Centred(psf.ky3)[p] = fftfreq(psf.ny, p[2])

\* the shift over a lateral axis of length n is the rotation by n // 2, which
\* puts index 0 on the centre n // 2
RotatedBy(n, k, i) == (i + k) % n

\* C20, amended: the centring shift moves nothing to another z-slice, and on
\* each lateral axis it is the rotation by n // 2 that the construction
\* applies to kx and ky, not its inverse: index 0 lands on the centre n // 2.
\* The two together are the rotation by 2 * (n // 2), the identity exactly
\* when the length is even or 1.
C20_CentringShift ==
    psf # NoObj =>
        /\ Centred(psf.kz3) = psf.kz3
        /\ \A p \in DOMAIN psf.kx3 :
             /\ psf.kx3[<<p[1], p[2], RotatedBy(psf.nx, psf.nx \div 2, p[3])>>]
                    = fftfreq(psf.nx, p[3])
             /\ psf.ky3[<<p[1], RotatedBy(psf.ny, psf.ny \div 2, p[2]), p[3]>>]
                    = fftfreq(psf.ny, p[2])
             /\ Centred(psf.kx3)[<<p[1], p[2], RotatedBy(psf.nx, 2 * (psf.nx \div 2), p[3])>>]
                    = fftfreq(psf.nx, p[3])
             /\ Centred(psf.ky3)[<<p[1], RotatedBy(psf.ny, 2 * (psf.ny \div 2), p[2]), p[3]>>]
                    = fftfreq(psf.ny, p[2])
        /\ (\A p \in DOMAIN psf.kx3 : Centred(psf.kx3)[p] = fftfreq(psf.nx, p[3]))
               <=> (psf.nx % 2 = 0 \/ psf.nx = 1)
        /\ (\A p \in DOMAIN psf.ky3 : Centred(psf.ky3)[p] = fftfreq(psf.ny, p[2]))
               <=> (psf.ny % 2 = 0 \/ psf.ny = 1)
        /\ (MethodCalled /\ pcall.fn \in {"incoherent_psf", "incoherent_psf_abs"}
              /\ pout.raised = "none") =>
               \A p \in DOMAIN pout.value.field :
                  pout.value.field[<<p[1], RotatedBy(psf.ny, psf.ny \div 2, p[2]),
                                     RotatedBy(psf.nx, psf.nx \div 2, p[3])>>].at = p

\* incoherent_psf has returned on a generator with an odd lateral length of 3
\* or more, where centring the centred kx does not give the order of fftfreq
C20_Witness ==
    /\ MethodCalled /\ pcall.fn = "incoherent_psf" /\ pout.raised = "none"
    /\ psf.nx % 2 = 1 /\ psf.nx >= 3
    /\ \E p \in DOMAIN psf.kx3 : Centred(psf.kx3)[p] # fftfreq(psf.nx, p[3])
    /\ \A z \in 0..(psf.nz - 1) :
         pout.value.field[<<z, psf.ny \div 2, psf.nx \div 2>>].at = <<z, 0, 0>>

----------------------------------------------------------------------------
(* nm_to_noll called on its own, with every order of either sign *)

\* the degrees 0..MaxDegree and the orders -MaxOrder..MaxOrder, the pairs
\* that are no Zernike mode included
MaxDegree == 9
MaxOrder == 11

\* nm_to_noll(n, m)
NmToNoll ==
    /\ \E n \in 0..MaxDegree, m \in (-MaxOrder)..MaxOrder :
         Returned([fn |-> "nm_to_noll", n |-> n, m |-> m], nm_to_noll(n, m))

NextNoll == NmToNoll

SpecNoll == Init /\ [][NextNoll]_vars

\* the guards of lines 96, 99, 102 and 105 that hold for (n, m), in the order
\* of the code
GuardsOf(n, m) ==
    {b \in 1..4 :
        \/ b = 1 /\ m > 0 /\ n % 4 \in {0, 1}
        \/ b = 2 /\ m < 0 /\ n % 4 \in {2, 3}
        \/ b = 3 /\ m >= 0 /\ n % 4 \in {2, 3}
        \/ b = 4 /\ m <= 0 /\ n % 4 \in {0, 1}}

NollCalled == call # NoArgs /\ call.fn = "nm_to_noll"

\* C21: for every n >= 0 and every integer m, nm_to_noll returns an index
\* through one of its four guarded branches (exactly one guard holds, and the
\* value is j of the first two or j + 1 of the last two); assert False is
\* never reached.
C21_NollTotal ==
    NollCalled =>
        LET j == (call.n * (call.n + 1)) \div 2 + abs(call.m)
            g == GuardsOf(call.n, call.m)
        IN  /\ out.raised = "none"
            /\ Cardinality(g) = 1
            /\ out.value = IF g \subseteq {1, 2} THEN j ELSE j + 1

\* nm_to_noll has returned through its last guard for an order of zero, and
\* for a pair that is no Zernike mode
C21_Witness ==
    /\ NollCalled
    /\ out.raised = "none"
    /\ \/ call.m = 0 /\ call.n % 4 = 1
       \/ abs(call.m) > call.n /\ call.n % 4 = 0 /\ call.m < 0

----------------------------------------------------------------------------
(* Evaluations one after another, the caches filling and dropping entries *)

\* no grid, and one size more than the caches hold
CachedSizes == 0..(maxsize + 1)

\* the modes of degree 2 with a cosine
CachedModes == {z \in PolyModes : z["n"] = 2 /\ z["m"] >= 0}

CachedOutside == {py_nan, PyInt(5)}

\* z.polynomial(size, normed, outside), whatever the caches hold
ZPolynomialCached ==
    /\ \E z \in CachedModes, size \in CachedSizes, normed \in Flags,
          outside \in CachedOutside :
         Evaluated([fn |-> "Zernike.polynomial", self |-> z, size |-> size,
                    normed |-> normed, outside |-> outside],
                   Zernike_polynomial(z, size, normed, outside,
                                      Caches(rho_cache, mask_cache)))

\* wf.polynomial(size, normed, outside), whatever the caches hold
WPolynomialCached ==
    /\ \E wf \in PsfWavefronts, size \in CachedSizes, normed \in Flags,
          outside \in {py_nan} :
         Evaluated([fn |-> "ZernikeWavefront.polynomial", self |-> wf, size |-> size,
                    normed |-> normed, outside |-> outside],
                   ZernikeWavefront_polynomial(wf, size, normed, outside,
                                               Caches(rho_cache, mask_cache)))

NextCached ==
    \/ ZPolynomialCached
    \/ WPolynomialCached

SpecCached == Init /\ [][NextCached]_vars

NoCaches == Caches(<<>>, <<>>)

\* what the last call returns when both caches are empty before it
UncachedResult ==
    IF call.fn = "Zernike.polynomial"
    THEN Zernike_polynomial(call.self, call.size, call.normed, call.outside,
                            NoCaches).result
    ELSE ZernikeWavefront_polynomial(call.self, call.size, call.normed, call.outside,
                                     NoCaches).result

PolynomialCalled ==
    call # NoArgs /\ call.fn \in {"Zernike.polynomial", "ZernikeWavefront.polynomial"}

\* C22: after any sequence of Zernike.polynomial and
\* ZernikeWavefront.polynomial calls every array the two caches hold is the
\* array rho_theta and outside_mask compute for its size, and the last call
\* has returned what the same call returns against empty caches.
C22_CacheTransparent ==
    /\ \A e \in Entries(rho_cache) : e[2] = rho_theta(e[1])
    /\ \A e \in Entries(mask_cache) : e[2] = outside_mask(rho_theta(e[1]))
    /\ PolynomialCalled => out = UncachedResult

\* a wavefront has been evaluated from the cached arrays alone, both caches
\* full, on a grid with points outside the unit circle
C22_Witness ==
    /\ PolynomialCalled
    /\ call.fn = "ZernikeWavefront.polynomial"
    /\ out.raised = "none"
    /\ ran = <<>>
    /\ Len(rho_cache) = maxsize /\ Len(mask_cache) = maxsize
    /\ \E p \in DOMAIN out.value : mask_cache[Len(mask_cache)][2][p]

\* the generator is a masked one and coherent_psf has returned a field on it
CoherentOnMasked ==
    /\ MethodCalled
    /\ pcall.fn = "coherent_psf"
    /\ pout.raised = "none"
    /\ psf.masked

\* coherent_psf of the last call with the other value of its masked argument
OtherMasked ==
    PsfGenerator3D_coherent_psf(psf, pcall.phi, pcall.normed, ~pcall.masked).result

\* exp(2.j * np.pi * u / lam) = exp(2.j * np.pi * v / lam) for two phases at a
\* point of denominator d: u - v is a whole multiple of lam
SameExp(u, v, lam, d) ==
    LET diff == num_add(u, num_scale(-1, v))
    IN  /\ ~diff.nan
        /\ \A t \in diff.c : t[1] = 0
        /\ coef(diff, 0) % (lam * pow(d, Deg)) = 0

\* two fields are the same: np.fft.ifftn is one-to-one, so their frequency
\* stacks are equal number by number
SameField(a, b) ==
    \A p \in DOMAIN a.ku :
        \/ a.ku[p].zero /\ b.ku[p].zero
        \/ /\ ~a.ku[p].zero /\ ~b.ku[p].zero
           /\ a.ku[p].base = b.ku[p].base
           /\ SameExp(a.ku[p].phase, b.ku[p].phase, psf.lam_detection,
                      psf.k_rho[<<p[2], p[3]>>].d)

MasksAgree ==
    \A p \in DOMAIN psf.k_mask3 : psf.k_mask3[p] = psf.k_mask2[<<p[2], p[3]>>]

\* where the two masks agree the masked argument does not change the field
MaskedSameWhereMasksAgree ==
    (CoherentOnMasked /\ MasksAgree) =>
        /\ OtherMasked.raised = "none"
        /\ SameField(pout.value, OtherMasked.value)

\* the two calls differ in the phase at a frequency outside the pupil, and
\* return the same field
MaskedSameReached ==
    /\ CoherentOnMasked /\ MasksAgree
    /\ \E q \in DOMAIN psf.k_mask2 : ~psf.k_mask2[q]
    /\ PsfGenerator3D_masked_phase(psf, pcall.phi, pcall.normed, TRUE).result
         # PsfGenerator3D_masked_phase(psf, pcall.phi, pcall.normed, FALSE).result

====
